---------------------------- MODULE Spec2Model ----------------------------
(***************************************************************************)
(* Reconciliation of tabular sources on a normalized key                   *)
(* (src/src/compare.py, src/src/main.py).                                  *)
(*                                                                         *)
(* Text is a sequence of one-character strings; the missing value (pd.NA / *)
(* NaN) is NA.  A table (DataFrame) is a record [cols, rows]: cols is the  *)
(* sequence of column names (each a text), rows a sequence of rows, a row  *)
(* being the sequence of the cells under cols.                             *)
(***************************************************************************)
EXTENDS Integers, Sequences, FiniteSets, TLC

VARIABLES
    raw,              \* normalizer run: the raw key cell handed to normalize_key_value
    norm,             \* normalizer run: normalize_key_value(raw)
    norm2,            \* normalizer run: normalize_key_value(norm)
    npc,              \* normalizer run: position
    source_to_df,     \* sheet run: sequence of [label, df], configured source order
    cfg,              \* sheet run: [columns, key_column] of the sheet
    outcome,          \* sheet run: what compare_sources gave: [df, matches, mismatches] or Raised
    summary,          \* sheet run: the sheet's summary record
    pc,               \* sheet run: position
    duplicates,       \* duplicate run: the records of _find_all_duplicates
    config,           \* batch run: sequence of [sheet_name, cfg], configuration order
    validation,       \* batch run: the Validation folder: [candidates, opens, sheets]
    source_files,     \* batch run: per sheet of SheetNames, what loading the sources gives
    sheet_idx,        \* batch run: the sheet the loop is at
    sheet_summaries,  \* batch run: summary records collected so far
    duplicate_records,\* batch run: duplicate records collected so far
    dashboard_records,\* batch run: dashboard records collected so far
    writer,           \* batch run: the writer of ValidatieOutput.xlsx
    report,           \* batch run: what was written to Testresultaat.xlsx
    rpc,              \* batch run: position
    projection,       \* one-source run: projected_by_source, sequence of [label, df]
    written,          \* one-source run: the table written to the sheet of the data output
    log,              \* one-source run: the lines logged for the sheet
    permuted,         \* permuted run: [order, outcome] of the comparison in another source order
    input_dirs,       \* discovery run: the entries of Data/Input and Data/InputColumns
    source_map        \* discovery run: sequence of [label, path]

run_vars == <<validation, config, source_files, sheet_idx, sheet_summaries, duplicate_records,
              dashboard_records, writer, report, rpc>>

aux_vars == <<projection, written, log, permuted, input_dirs, source_map>>

vars == <<raw, norm, norm2, npc, source_to_df, cfg, outcome, summary, pc, duplicates,
          run_vars, aux_vars>>

-----------------------------------------------------------------------------
(* Text *)

NA == <<"<NA>">>

Digits == {"0", "1", "2", "3", "4", "5", "6", "7", "8", "9"}

\* str.strip() removes every whitespace character, str.replace(' ', '') only U+0020
Whitespace == {" ", "\t"}

\* the characters in use, in code point order
Ascii == <<"\t", " ", ",", ".", "0", "1", "2", "3", "4", "5", "6", "7", "8", "9",
           "A", "B", "C", "D", "I", "K", "M", "_",
           "a", "b", "c", "e", "g", "h", "i", "j", "l", "m", "n", "o", "p", "r", "s",
           "t", "u", "v", "w", "x", "y", "z">>

CharCode(c) == CHOOSE i \in 1..Len(Ascii) : Ascii[i] = c

RECURSIVE StrLess(_, _)
StrLess(a, b) ==
    IF b = <<>> THEN FALSE
    ELSE IF a = <<>> THEN TRUE
    ELSE IF Head(a) = Head(b) THEN StrLess(Tail(a), Tail(b))
    ELSE CharCode(Head(a)) < CharCode(Head(b))

StartsWith(s, p) == Len(s) >= Len(p) /\ SubSeq(s, 1, Len(p)) = p
EndsWith(s, p) == Len(s) >= Len(p) /\ SubSeq(s, Len(s) - Len(p) + 1, Len(s)) = p

RECURSIVE LStrip(_)
LStrip(s) == IF s # <<>> /\ Head(s) \in Whitespace THEN LStrip(Tail(s)) ELSE s

RECURSIVE RStrip(_)
RStrip(s) ==
    IF s # <<>> /\ s[Len(s)] \in Whitespace THEN RStrip(SubSeq(s, 1, Len(s) - 1)) ELSE s

Strip(s) == RStrip(LStrip(s))

IsNotBlank(c) == c # " "
ReplaceSpaces(s) == SelectSeq(s, IsNotBlank)

IsNotSeparator(c) == c \notin {",", "."}
IsNotComma(c) == c # ","
\* variant: the translation table holds ',' only
TranslateCommasOnly(s) == SelectSeq(s, IsNotComma)
TranslateSeparators(s) == SelectSeq(s, IsNotSeparator)

-----------------------------------------------------------------------------
(* Key Normalizer: compare.py *)

\* variant: the pattern ^[\d.,]*$, without the leading digit
is_numeric_any_separator(value) ==
    /\ value # <<>>
    /\ \A i \in 1..Len(value) : value[i] \in Digits \cup {".", ","}

\* _NUM_SEP_PATTERN  ^[\d][\d.,]*$  matched against a text without trailing newline
is_numeric_with_separators(value) ==
    /\ value # <<>>
    /\ value[1] \in Digits
    /\ \A i \in 1..Len(value) : value[i] \in Digits \cup {".", ","}

\* variant: the pattern is matched against s, before the spaces are removed
normalize_key_value_pattern_first(value) ==
    IF value = NA THEN NA
    ELSE LET s == Strip(value) IN
         IF s = <<>> THEN s
         ELSE IF is_numeric_with_separators(s)
              THEN TranslateSeparators(s)
              ELSE ReplaceSpaces(s)

normalize_key_value(value) ==
    IF value = NA THEN NA
    ELSE LET s == Strip(value) IN
         IF s = <<>> THEN s
         ELSE LET s_no_spaces == ReplaceSpaces(s) IN
              IF is_numeric_with_separators(s_no_spaces)
              THEN TranslateSeparators(s_no_spaces)
              ELSE s_no_spaces


-----------------------------------------------------------------------------
(* Tables (pandas DataFrame) *)

Table(cols, rows) == [cols |-> cols, rows |-> rows]

NRows(df) == Len(df.rows)

\* DataFrame.empty: an axis of length 0
IsEmpty(df) == Len(df.cols) = 0 \/ Len(df.rows) = 0

HasCol(df, c) == \E i \in 1..Len(df.cols) : df.cols[i] = c

ColIndex(df, c) == CHOOSE i \in 1..Len(df.cols) : df.cols[i] = c

\* df[c] as a series: one cell per row
Column(df, c) == [r \in 1..NRows(df) |-> df.rows[r][ColIndex(df, c)]]

\* df[c] = series: replaces the column in place when c exists, appends it otherwise
SetColumn(df, c, series) ==
    IF HasCol(df, c)
    THEN Table(df.cols,
               [r \in 1..NRows(df) |->
                   [j \in 1..Len(df.cols) |->
                       IF j = ColIndex(df, c) THEN series[r] ELSE df.rows[r][j]]])
    ELSE Table(Append(df.cols, c),
               [r \in 1..NRows(df) |-> Append(df.rows[r], series[r])])

\* df[names], every name being a column of df
SelectColumns(df, names) ==
    Table(names,
          [r \in 1..NRows(df) |->
              [j \in 1..Len(names) |-> df.rows[r][ColIndex(df, names[j])]]])

\* pd.Series(pd.NA, index=df.index)
NASeries(df) == [r \in 1..NRows(df) |-> NA]

\* pd.concat([df, pd.DataFrame(new_cols, index=df.index)], axis=1); new_cols is a
\* sequence of [name, series]; a series shorter than the index is reindexed, its
\* absent cells being missing
RECURSIVE ConcatColumns(_, _)
ConcatColumns(df, new_cols) ==
    IF new_cols = <<>> THEN df
    ELSE LET nc == Head(new_cols)
             cell(r) == IF r \in DOMAIN nc.series THEN nc.series[r] ELSE NA
         IN ConcatColumns(
                Table(Append(df.cols, nc.name),
                      [r \in 1..NRows(df) |-> Append(df.rows[r], cell(r))]),
                Tail(new_cols))

\* new_cols[name] = series on a dict kept in insertion order
DictPut(new_cols, name, series) ==
    IF \E i \in 1..Len(new_cols) : new_cols[i].name = name
    THEN [i \in 1..Len(new_cols) |->
             IF new_cols[i].name = name
             THEN [name |-> name, series |-> series] ELSE new_cols[i]]
    ELSE Append(new_cols, [name |-> name, series |-> series])

Raised == [raised |-> TRUE]

-----------------------------------------------------------------------------
(* Names *)

Underscore == <<"_">>
KeyName == <<"K", "e", "y">>
AanwezigPrefix == <<"A", "a", "n", "w", "e", "z", "i", "g", "_">>
MatchPrefix == <<"M", "a", "t", "c", "h", "_">>
MatchKeyName == MatchPrefix \o KeyName
BronMatchName == <<"B", "r", "o", "n", "M", "a", "t", "c", "h">>
ja == <<"j", "a">>
nee == <<"n", "e", "e">>

\* series.map({True: "ja", False: "nee"})
JaNee(b) == IF b THEN ja ELSE nee

-----------------------------------------------------------------------------
(* Source Projector: compare.py *)

\* variant: the absent key column is made of empty text
ensure_key_column_exists_blank(df, key_column) ==
    IF ~HasCol(df, key_column)
    THEN SetColumn(df, key_column, [r \in 1..NRows(df) |-> <<>>])
    ELSE df

ensure_key_column_exists(df, key_column) ==
    IF ~HasCol(df, key_column) THEN SetColumn(df, key_column, NASeries(df)) ELSE df

get_columns_to_keep(key_column, columns_to_compare, available_columns) ==
    LET desired_columns ==
            <<key_column>> \o SelectSeq(columns_to_compare, LAMBDA c : c # key_column)
    IN SelectSeq(desired_columns,
                 LAMBDA c : \E i \in 1..Len(available_columns) : available_columns[i] = c)

project_single_source_data(df, columns_to_compare, key_column) ==
    IF IsEmpty(df) THEN Table(<<key_column>> \o columns_to_compare, <<>>)
    ELSE LET df_with_key == ensure_key_column_exists(df, key_column)
             keep_cols == get_columns_to_keep(key_column, columns_to_compare,
                                              df_with_key.cols)
             projected == SelectColumns(df_with_key, keep_cols)
             keys == Column(projected, key_column)
         IN SetColumn(projected, KeyName,
                      [r \in 1..NRows(projected) |-> normalize_key_value(keys[r])])

project_source_data(s2d, columns_to_compare, key_column) ==
    [i \in 1..Len(s2d) |->
        [label |-> s2d[i].label,
         df |-> project_single_source_data(s2d[i].df, columns_to_compare, key_column)]]

-----------------------------------------------------------------------------
(* Multi-Source Merger: compare.py *)

rename_source_columns(df, source) ==
    Table([i \in 1..Len(df.cols) |->
              IF df.cols[i] # KeyName THEN df.cols[i] \o Underscore \o source
              ELSE df.cols[i]],
          df.rows)

\* order of the join keys in the result of an outer merge: ascending, missing last
KeyBefore(a, b) ==
    IF a = NA THEN FALSE ELSE IF b = NA THEN TRUE ELSE StrLess(a, b)

RECURSIVE SortKeys(_)
SortKeys(S) ==
    IF S = {} THEN <<>>
    ELSE LET m == CHOOSE k \in S : \A j \in S \ {k} : KeyBefore(k, j)
         IN <<m>> \o SortKeys(S \ {m})

RECURSIVE Flatten(_)
Flatten(blocks) == IF blocks = <<>> THEN <<>> ELSE Head(blocks) \o Flatten(Tail(blocks))

\* variant: how="left", the keys held by the right side only are dropped
LeftMerge(left, right) ==
    IF ~HasCol(left, KeyName) \/ ~HasCol(right, KeyName) THEN Raised
    ELSE LET lk == ColIndex(left, KeyName)
             rk == ColIndex(right, KeyName)
             DropKey(row) == SubSeq(row, 1, rk - 1) \o SubSeq(row, rk + 1, Len(row))
             rcols == DropKey(right.cols)
             MissingRight == [j \in 1..Len(rcols) |-> NA]
             Block(l) ==
                 LET R == SelectSeq(right.rows, LAMBDA row : row[rk] = left.rows[l][lk])
                 IN IF R = <<>> THEN <<left.rows[l] \o MissingRight>>
                    ELSE [j \in 1..Len(R) |-> left.rows[l] \o DropKey(R[j])]
         IN [raised |-> FALSE,
             df |-> Table(left.cols \o rcols,
                          Flatten([l \in 1..NRows(left) |-> Block(l)]))]

\* left.merge(right, on="Key", how="outer", suffixes=(None, None)): KeyError when a
\* side has no Key column, ValueError when other column names overlap; a key held
\* by both sides gives the product of its rows, missing keys match each other
OuterMerge(left, right) ==
    IF ~HasCol(left, KeyName) \/ ~HasCol(right, KeyName) THEN Raised
    ELSE LET lk == ColIndex(left, KeyName)
             rk == ColIndex(right, KeyName)
             DropKey(row) == SubSeq(row, 1, rk - 1) \o SubSeq(row, rk + 1, Len(row))
             rcols == DropKey(right.cols)
             overlap == \E i \in 1..Len(left.cols), j \in 1..Len(rcols) :
                            left.cols[i] = rcols[j]
             keys == SortKeys({left.rows[r][lk] : r \in 1..NRows(left)}
                              \cup {right.rows[r][rk] : r \in 1..NRows(right)})
             MissingLeft(k) == [j \in 1..Len(left.cols) |-> IF j = lk THEN k ELSE NA]
             MissingRight == [j \in 1..Len(rcols) |-> NA]
             Block(k) ==
                 LET L == SelectSeq(left.rows, LAMBDA row : row[lk] = k)
                     R == SelectSeq(right.rows, LAMBDA row : row[rk] = k)
                 IN IF R = <<>> THEN [i \in 1..Len(L) |-> L[i] \o MissingRight]
                    ELSE IF L = <<>>
                    THEN [j \in 1..Len(R) |-> MissingLeft(k) \o DropKey(R[j])]
                    ELSE [n \in 1..(Len(L) * Len(R)) |->
                             L[((n - 1) \div Len(R)) + 1]
                                 \o DropKey(R[((n - 1) % Len(R)) + 1])]
         IN IF overlap THEN Raised
            ELSE [raised |-> FALSE,
                  df |-> Table(left.cols \o rcols,
                               Flatten([i \in 1..Len(keys) |-> Block(keys[i])]))]

RECURSIVE MergeFold(_, _, _)
MergeFold(projected_by_source, idx, merged) ==
    IF idx > Len(projected_by_source) \/ merged.raised THEN merged
    ELSE LET pdf_renamed == rename_source_columns(projected_by_source[idx].df,
                                                  projected_by_source[idx].label)
         IN MergeFold(projected_by_source, idx + 1,
                      IF idx = 1 THEN [raised |-> FALSE, df |-> pdf_renamed]
                      ELSE OuterMerge(merged.df, pdf_renamed))

merge_projected_data(projected_by_source) ==
    IF projected_by_source = <<>>
    THEN [raised |-> FALSE, df |-> Table(<<KeyName>>, <<>>)]
    ELSE MergeFold(projected_by_source, 1, [raised |-> FALSE, df |-> Table(<<>>, <<>>)])

-----------------------------------------------------------------------------
(* Presence & Match Deriver: compare.py *)

\* variant: the missing key is not dropped from the set
KeySetWithMissing(projected_df) ==
    {projected_df.rows[r][ColIndex(projected_df, KeyName)] : r \in 1..NRows(projected_df)}

\* set(projected_df["Key"].dropna())
KeySet(projected_df) ==
    {projected_df.rows[r][ColIndex(projected_df, KeyName)] : r \in 1..NRows(projected_df)}
        \ {NA}

\* variant: every row counts as present in the source
create_presence_series_all(merged, source_keys) ==
    IF IsEmpty(merged) THEN <<>>
    ELSE [r \in 1..NRows(merged) |-> TRUE]

\* merged["Key"].isin(source_keys), an empty series when merged is empty
create_presence_series(merged, source_keys) ==
    IF IsEmpty(merged) THEN <<>>
    ELSE [r \in 1..NRows(merged) |-> Column(merged, KeyName)[r] \in source_keys]

\* variant: the running conjunction is overwritten by the last source's presence
AllPresentLast(all_present_series, present_series) == present_series

\* all_present_series & present_series
AllPresentAnd(all_present_series, present_series) ==
    [r \in DOMAIN all_present_series |-> all_present_series[r] /\ present_series[r]]

RECURSIVE PresenceLoop(_, _, _, _, _)
PresenceLoop(merged, projected_by_source, i, new_cols, all_present_series) ==
    IF i > Len(projected_by_source)
    THEN [new_cols |-> new_cols, all_present_series |-> all_present_series]
    ELSE LET present_series ==
                 create_presence_series(merged, KeySet(projected_by_source[i].df))
         IN PresenceLoop(merged, projected_by_source, i + 1,
                DictPut(new_cols, AanwezigPrefix \o projected_by_source[i].label,
                        [r \in DOMAIN present_series |-> JaNee(present_series[r])]),
                AllPresentAnd(all_present_series, present_series))

\* KeyError when a projected table has no Key column
add_presence_columns(result_df, merged, projected_by_source) ==
    IF \E i \in 1..Len(projected_by_source) : ~HasCol(projected_by_source[i].df, KeyName)
    THEN Raised
    ELSE LET start == IF ~IsEmpty(merged) THEN [r \in 1..NRows(merged) |-> TRUE]
                      ELSE <<>>
             loop == PresenceLoop(merged, projected_by_source, 1, <<>>, start)
             new_cols == DictPut(loop.new_cols, MatchKeyName,
                                 [r \in DOMAIN loop.all_present_series |->
                                     JaNee(loop.all_present_series[r])])
         IN [raised |-> FALSE,
             df |-> ConcatColumns(result_df, new_cols),
             all_present_series |-> loop.all_present_series]

\* the names of merged that end with _<source>, sorted
RECURSIVE SortNames(_)
SortNames(S) ==
    IF S = {} THEN <<>>
    ELSE LET m == CHOOSE c \in S : \A d \in S \ {c} : StrLess(c, d)
         IN <<m>> \o SortNames(S \ {m})

RECURSIVE SourceKeyLoop(_, _, _, _)
SourceKeyLoop(merged, sources, i, new_cols) ==
    IF i > Len(sources) THEN new_cols
    ELSE LET src_key_cols ==
                 SortNames({merged.cols[j] : j \in
                     {j \in 1..Len(merged.cols) :
                         /\ EndsWith(merged.cols[j], Underscore \o sources[i])
                         /\ merged.cols[j] # KeyName}})
         IN SourceKeyLoop(merged, sources, i + 1,
                DictPut(new_cols, sources[i] \o Underscore \o KeyName,
                        IF src_key_cols # <<>> THEN Column(merged, src_key_cols[1])
                        ELSE NASeries(merged)))

\* variant: the first column of merged that starts with <col>_, whatever its source
SourceColumnAnySource(merged, col, source) ==
    LET starts == {j \in 1..Len(merged.cols) : StartsWith(merged.cols[j], col \o Underscore)}
    IN IF starts # {}
       THEN Column(merged, merged.cols[CHOOSE j \in starts : \A k \in starts : j <= k])
       ELSE NASeries(merged)

\* the cells of column col of source in merged, missing when merged has no such column
SourceColumn(merged, col, source) ==
    LET src_col == col \o Underscore \o source
    IN IF HasCol(merged, src_col) THEN Column(merged, src_col) ELSE NASeries(merged)

RECURSIVE SourceValueLoop(_, _, _, _, _)
SourceValueLoop(merged, columns_to_compare, sources, n, new_cols) ==
    \* n counts the (col, source) pairs done, columns outermost
    IF n >= Len(columns_to_compare) * Len(sources) THEN new_cols
    ELSE LET col == columns_to_compare[(n \div Len(sources)) + 1]
             source == sources[(n % Len(sources)) + 1]
         IN SourceValueLoop(merged, columns_to_compare, sources, n + 1,
                DictPut(new_cols, source \o Underscore \o col,
                        SourceColumn(merged, col, source)))

add_source_columns(result_df, merged, columns_to_compare, sources) ==
    ConcatColumns(result_df,
        SourceValueLoop(merged, columns_to_compare, sources, 0,
                        SourceKeyLoop(merged, sources, 1, <<>>)))

\* ref == s on cells: a missing cell equals nothing
CellsEqual(a, b) == a # NA /\ b # NA /\ a = b

\* variant: values that are missing in every source do not count as agreeing
compare_column_values_no_all_na(col_values, merged) ==
    IF Len(col_values) < 2 \/ IsEmpty(merged)
    THEN [equal_series |-> <<>>, all_na_series |-> <<>>]
    ELSE [equal_series |->
              [r \in 1..NRows(merged) |->
                  \A i \in 2..Len(col_values) :
                      CellsEqual(col_values[1][r], col_values[i][r])],
          all_na_series |-> [r \in 1..NRows(merged) |-> FALSE]]

\* variant: only the second source is compared with the first
compare_column_values_first_pair(col_values, merged) ==
    IF Len(col_values) < 2 \/ IsEmpty(merged)
    THEN [equal_series |-> <<>>, all_na_series |-> <<>>]
    ELSE [equal_series |->
              [r \in 1..NRows(merged) |-> CellsEqual(col_values[1][r], col_values[2][r])],
          all_na_series |->
              [r \in 1..NRows(merged) |->
                  \A i \in 1..Len(col_values) : col_values[i][r] = NA]]

compare_column_values(col_values, merged) ==
    IF Len(col_values) < 2 \/ IsEmpty(merged)
    THEN [equal_series |-> <<>>, all_na_series |-> <<>>]
    ELSE [equal_series |->
              [r \in 1..NRows(merged) |->
                  \A i \in 2..Len(col_values) :
                      CellsEqual(col_values[1][r], col_values[i][r])],
          all_na_series |->
              [r \in 1..NRows(merged) |->
                  \A i \in 1..Len(col_values) : col_values[i][r] = NA]]

\* variant: the running conjunction is overwritten by the last column's verdict
AlignedLast(a, b) == [r \in DOMAIN a |-> r \in DOMAIN b /\ b[r]]

\* a & b on boolean series: b is aligned to the index of a, its absent cells False
AlignedAnd(a, b) == [r \in DOMAIN a |-> a[r] /\ (r \in DOMAIN b /\ b[r])]

RECURSIVE MatchLoop(_, _, _, _, _, _)
MatchLoop(merged, columns_to_compare, sources, c, new_cols, all_cols_match) ==
    IF c > Len(columns_to_compare)
    THEN [new_cols |-> new_cols, all_cols_match |-> all_cols_match]
    ELSE LET col == columns_to_compare[c]
             col_values == [i \in 1..Len(sources) |-> SourceColumn(merged, col, sources[i])]
             cmp == compare_column_values(col_values, merged)
             either == [r \in DOMAIN cmp.equal_series |->
                           cmp.equal_series[r] \/ cmp.all_na_series[r]]
         IN IF IsEmpty(merged)
            THEN MatchLoop(merged, columns_to_compare, sources, c + 1,
                           new_cols, all_cols_match)
            ELSE MatchLoop(merged, columns_to_compare, sources, c + 1,
                           DictPut(new_cols, MatchPrefix \o col,
                                   [r \in DOMAIN either |-> JaNee(either[r])]),
                           AlignedAnd(all_cols_match, either))

add_match_columns(result_df, merged, columns_to_compare, sources) ==
    LET start == IF IsEmpty(merged) THEN <<>> ELSE [r \in 1..NRows(merged) |-> TRUE]
        loop == MatchLoop(merged, columns_to_compare, sources, 1, <<>>, start)
    IN [df |-> ConcatColumns(result_df, loop.new_cols),
        all_cols_match |-> loop.all_cols_match]

-----------------------------------------------------------------------------
(* Column Orderer and compare_sources: compare.py *)

\* variant: Match_<column> is put before the sources' columns
RECURSIVE MatchFirstColumnNames(_, _, _)
MatchFirstColumnNames(columns_to_compare, sources, c) ==
    IF c > Len(columns_to_compare) THEN <<>>
    ELSE <<MatchPrefix \o columns_to_compare[c]>>
             \o [i \in 1..Len(sources) |-> sources[i] \o Underscore \o columns_to_compare[c]]
             \o MatchFirstColumnNames(columns_to_compare, sources, c + 1)

RECURSIVE ValueColumnNames(_, _, _)
ValueColumnNames(columns_to_compare, sources, c) ==
    IF c > Len(columns_to_compare) THEN <<>>
    ELSE [i \in 1..Len(sources) |-> sources[i] \o Underscore \o columns_to_compare[c]]
             \o <<MatchPrefix \o columns_to_compare[c]>>
             \o ValueColumnNames(columns_to_compare, sources, c + 1)

get_ordered_columns(result_df, columns_to_compare, sources) ==
    <<KeyName>>
        \o SelectSeq(result_df.cols, LAMBDA c : StartsWith(c, AanwezigPrefix))
        \o <<MatchKeyName, BronMatchName>>
        \o [i \in 1..Len(sources) |-> sources[i] \o Underscore \o KeyName]
        \o ValueColumnNames(columns_to_compare, sources, 1)

\* result_df[ordered_cols]: KeyError when a name is no column of result_df
order_columns(result_df, columns_to_compare, sources) ==
    LET ordered_cols == get_ordered_columns(result_df, columns_to_compare, sources)
    IN IF \E i \in 1..Len(ordered_cols) : ~HasCol(result_df, ordered_cols[i])
       THEN Raised
       ELSE [raised |-> FALSE, df |-> SelectColumns(result_df, ordered_cols)]

\* variant: every row is counted
CountAll(series) == Len(series)

CountTrue(series) == Cardinality({r \in DOMAIN series : series[r]})

\* variant: the key column stays among the comparison columns
FilterNothing(columns_to_compare, key_column) == columns_to_compare

\* columns_to_compare without the key column, both names compared stripped
FilterKeyColumn(columns_to_compare, key_column) ==
    SelectSeq(columns_to_compare, LAMBDA c : Strip(c) # Strip(key_column))

compare_sources(s2d, columns, key_column) ==
    LET columns_to_compare == FilterKeyColumn(columns, key_column)
        sources == [i \in 1..Len(s2d) |-> s2d[i].label]
        projected_by_source == project_source_data(s2d, columns_to_compare, key_column)
        m == merge_projected_data(projected_by_source)
    IN IF m.raised THEN Raised
       ELSE
       LET merged == m.df
           result_df0 == IF HasCol(merged, KeyName)
                         THEN SelectColumns(merged, <<KeyName>>)
                         ELSE Table(<<KeyName>>, <<>>)
           p == add_presence_columns(result_df0, merged, projected_by_source)
       IN IF p.raised THEN Raised
          ELSE
          LET result_df1 == add_source_columns(p.df, merged, columns_to_compare, sources)
              mt == add_match_columns(result_df1, merged, columns_to_compare, sources)
              row_full_match == [r \in 1..NRows(merged) |->
                                    p.all_present_series[r] /\ mt.all_cols_match[r]]
              result_df2 == SetColumn(mt.df, BronMatchName,
                                [r \in 1..NRows(merged) |-> JaNee(row_full_match[r])])
              matches == IF ~IsEmpty(merged) THEN CountTrue(row_full_match) ELSE 0
              o == order_columns(result_df2, columns_to_compare, sources)
          IN IF o.raised THEN Raised
             ELSE [raised |-> FALSE,
                   df |-> o.df,
                   matches |-> matches,
                   mismatches |-> NRows(o.df) - matches]

-----------------------------------------------------------------------------
(* Reconciliation Orchestrator: main.py *)

process_sheet_configuration(c) ==
    [columns_to_compare |->
         LET stripped == [i \in 1..Len(c.columns) |-> Strip(c.columns[i])]
         IN SelectSeq(stripped, LAMBDA n : n # <<>>),
     key_column |-> Strip(c.key_column)]

compare_sheet_data(s2d, c) ==
    LET pcfg == process_sheet_configuration(c)
    IN compare_sources(s2d, pcfg.columns_to_compare, pcfg.key_column)

CountCells(df, c, v) ==
    Cardinality({r \in 1..NRows(df) : Column(df, c)[r] = v})

create_summary(sheet_name, result_df) ==
    [Sheet |-> sheet_name,
     Totaal |-> NRows(result_df),
     Matches |-> CountCells(result_df, BronMatchName, ja),
     Mismatches |-> CountCells(result_df, BronMatchName, nee)]

create_error_summary(sheet_name) ==
    [Sheet |-> sheet_name, Totaal |-> 0, Matches |-> 0, Mismatches |-> 0]

\* variant: the fallback of the except branch, the key series as it is
normalize_key_series_raw(key_series) == key_series

\* key_series.map(normalize_key_value)
normalize_key_series(key_series) ==
    [r \in DOMAIN key_series |-> normalize_key_value(key_series[r])]

\* the values in order of first occurrence
RECURSIVE FirstOccurrences(_)
FirstOccurrences(series) ==
    IF series = <<>> THEN <<>>
    ELSE LET front == FirstOccurrences(SubSeq(series, 1, Len(series) - 1))
             last == series[Len(series)]
         IN IF \E i \in 1..Len(front) : front[i] = last THEN front
            ELSE Append(front, last)

\* the entries of counted whose count is in T, by descending count
RECURSIVE ByCount(_, _)
ByCount(counted, T) ==
    IF T = {} THEN <<>>
    ELSE LET m == CHOOSE t \in T : \A u \in T : t >= u
         IN SelectSeq(counted, LAMBDA e : e.count = m) \o ByCount(counted, T \ {m})

\* key_series.value_counts(dropna=True): [value, count] by descending count,
\* values with the same count in order of first occurrence
value_counts(key_series) ==
    LET values == SelectSeq(FirstOccurrences(key_series), LAMBDA v : v # NA)
        count(v) == Cardinality({r \in DOMAIN key_series : key_series[r] = v})
        counted == [i \in 1..Len(values) |-> [value |-> values[i], count |-> count(values[i])]]
    IN ByCount(counted, {counted[i].count : i \in 1..Len(counted)})

find_duplicate_keys(df, key_col, sheet, source) ==
    IF IsEmpty(df) \/ ~HasCol(df, key_col) THEN <<>>
    ELSE LET key_series == normalize_key_series(Column(df, key_col))
             counts == value_counts(key_series)
             dups == SelectSeq(counts, LAMBDA e : e.count > 1)
         IN [i \in 1..Len(dups) |->
                [Sheet |-> sheet, Bron |-> source,
                 Key |-> dups[i].value, Aantal |-> dups[i].count]]

find_all_duplicates(s2d, key_column, sheet_name) ==
    Flatten([i \in 1..Len(s2d) |->
                find_duplicate_keys(s2d[i].df, key_column, sheet_name, s2d[i].label)])

compute_key_stats(df, key_col) ==
    IF HasCol(df, key_col)
    THEN LET s == Column(df, key_col)
             filled == {r \in DOMAIN s : s[r] # NA}
         IN [Key_NonNull |-> Cardinality(filled),
             Key_Null |-> Cardinality(DOMAIN s \ filled),
             Key_Uniek |-> Cardinality({s[r] : r \in filled}),
             Key_Duplicaten |->
                 Cardinality({r \in filled : \E q \in filled : q # r /\ s[q] = s[r]})]
    ELSE [Key_NonNull |-> 0, Key_Null |-> NRows(df), Key_Uniek |-> 0, Key_Duplicaten |-> 0]

create_dashboard_records(sheet_name, key_column, s2d) ==
    [i \in 1..Len(s2d) |->
        LET df == s2d[i].df
            key_stats == compute_key_stats(df, key_column)
        IN [Sheet |-> sheet_name,
            Bron |-> s2d[i].label,
            Rijen |-> NRows(df),
            Kolommen |-> IF ~IsEmpty(df) THEN Len(df.cols) ELSE 0,
            KeyKolom |-> key_column,
            Key_NonNull |-> key_stats.Key_NonNull,
            Key_Null |-> key_stats.Key_Null,
            Key_Uniek |-> key_stats.Key_Uniek,
            Key_Duplicaten |-> key_stats.Key_Duplicaten]]

\* process_single_sheet after the comparison, without a writer: an exception of
\* the comparison ends it, else the sheet's records are made
after_compare_sheet_data(sheet_name, key_column, s2d, compared) ==
    IF compared.raised THEN Raised
    ELSE [raised |-> FALSE,
          summary |-> create_summary(sheet_name, compared.df),
          duplicates |-> find_all_duplicates(s2d, key_column, sheet_name),
          dashboard_records |-> create_dashboard_records(sheet_name, key_column, s2d)]

process_single_sheet(sheet_name, c, s2d) ==
    after_compare_sheet_data(sheet_name, process_sheet_configuration(c).key_column, s2d,
                             compare_sheet_data(s2d, c))

\* the except branch of _process_sheet_with_error_handling
error_handling(sheet_name, processed) ==
    IF processed.raised
    THEN [summary |-> create_error_summary(sheet_name),
          duplicates |-> <<>>,
          dashboard_records |-> <<>>]
    ELSE [summary |-> processed.summary,
          duplicates |-> processed.duplicates,
          dashboard_records |-> processed.dashboard_records]

process_sheet_with_error_handling(sheet_name, c, s2d) ==
    error_handling(sheet_name, process_single_sheet(sheet_name, c, s2d))

\* the writer of a workbook: the sheets written to it and how often it was closed
create_excel_writer == [state |-> "open", sheets |-> <<>>, closes |-> 0]

NoWriter == [state |-> "none", sheets |-> <<>>, closes |-> 0]

write_sheet_output(w, sheet_name, result_df) ==
    [w EXCEPT !.sheets = Append(@, sheet_name)]

\* variant: leaving the with block does not close the writer
writer_exit_leak(w) == w

\* leaving the with block, normally or by an exception: ExcelWriter.__exit__
writer_exit(w) == [w EXCEPT !.state = "closed", !.closes = @ + 1]

\* _process_sheet_data_only after the comparison: its result is written
write_compared_sheet(w, sheet_name, compared) ==
    IF compared.raised THEN Raised
    ELSE [raised |-> FALSE, writer |-> write_sheet_output(w, sheet_name, compared.df)]

\* _process_sheet_data_only: the sheet is compared again and written to the writer
process_sheet_data_only(w, sheet_name, c, s2d) ==
    write_compared_sheet(w, sheet_name, compare_sheet_data(s2d, c))

\* str.lower()
Lower(s) ==
    LET UpperLetters == <<"A", "B", "C", "D", "E", "F", "G", "H", "I", "J", "K", "L", "M",
                          "N", "O", "P", "Q", "R", "S", "T", "U", "V", "W", "X", "Y", "Z">>
        LowerLetters == <<"a", "b", "c", "d", "e", "f", "g", "h", "i", "j", "k", "l", "m",
                          "n", "o", "p", "q", "r", "s", "t", "u", "v", "w", "x", "y", "z">>
    IN [i \in 1..Len(s) |->
           IF \E k \in DOMAIN UpperLetters : UpperLetters[k] = s[i]
           THEN LowerLetters[CHOOSE k \in DOMAIN UpperLetters : UpperLetters[k] = s[i]]
           ELSE s[i]]

NanText == <<"n", "a", "n">>
BronText == <<"b", "r", "o", "n">>
KeyMarker == <<"k", "e", "y">>

\* astype(str) of a cell of the configuration sheet: an empty cell is "nan"
AsStr(cell) == IF cell = NA THEN NanText ELSE cell

is_bron(name) == Lower(Strip(name)) = BronText

extract_columns(header_row) ==
    SelectSeq(header_row,
              LAMBDA col : /\ col # <<>>
                           /\ Strip(col) # <<>>
                           /\ Lower(Strip(col)) # NanText
                           /\ ~is_bron(col))

\* the positions of key_markers that name a key column of header_row
MarkedPositions(header_row, key_markers) ==
    {idx \in 1..Len(key_markers) :
        /\ key_markers[idx] # <<>>
        /\ Lower(Strip(key_markers[idx])) = KeyMarker
        /\ idx <= Len(header_row)
        /\ header_row[idx] # <<>>
        /\ Strip(header_row[idx]) # <<>>}

\* the first marked column, if there is one
find_key_column_by_marker(header_row, key_markers) ==
    LET marked == MarkedPositions(header_row, key_markers)
    IN IF marked = {} THEN [found |-> FALSE]
       ELSE [found |-> TRUE,
             key_column |-> header_row[CHOOSE idx \in marked : \A q \in marked : idx <= q]]

\* variant: a sheet without a key marker takes its first column as the key
process_sheet_config_first_column(df) ==
    IF df = <<>> THEN [valid |-> FALSE]
    ELSE LET header_row == [i \in 1..Len(df[1]) |-> AsStr(df[1][i])]
             columns == extract_columns(header_row)
         IN IF columns = <<>> THEN [valid |-> FALSE]
            ELSE [valid |-> TRUE, columns |-> columns, key_column |-> columns[1]]

\* df is the sheet read without a header: a sequence of rows of cells
process_sheet_config(df) ==
    IF df = <<>> THEN [valid |-> FALSE]
    ELSE LET header_row == [i \in 1..Len(df[1]) |-> AsStr(df[1][i])]
             key_markers == IF Len(df) > 1
                            THEN [i \in 1..Len(df[2]) |-> Lower(AsStr(df[2][i]))]
                            ELSE <<>>
             columns == extract_columns(header_row)
             key == find_key_column_by_marker(header_row, key_markers)
         IN IF columns = <<>> THEN [valid |-> FALSE]
            ELSE IF ~key.found THEN [valid |-> FALSE]
            ELSE [valid |-> TRUE, columns |-> columns, key_column |-> key.key_column]

\* the loop over xls.sheet_names: the sheets with a configuration, in order
RECURSIVE SheetConfigs(_)
SheetConfigs(sheets) ==
    IF sheets = <<>> THEN <<>>
    ELSE (IF process_sheet_config(Head(sheets).df).valid
          THEN <<[sheet_name |-> Head(sheets).sheet_name,
                  cfg |-> [columns |-> process_sheet_config(Head(sheets).df).columns,
                           key_column |->
                               process_sheet_config(Head(sheets).df).key_column]]>>
          ELSE <<>>)
         \o SheetConfigs(Tail(sheets))

\* RuntimeError when the workbook cannot be opened or no sheet is valid
read_kolommen_config(v) ==
    IF ~v.opens THEN Raised
    ELSE IF SheetConfigs(v.sheets) = <<>> THEN Raised
    ELSE [raised |-> FALSE, config |-> SheetConfigs(v.sheets)]

\* RuntimeError unless the folder holds exactly one *.xlsx
find_single_validation_config(v) ==
    IF v.candidates # 1 THEN Raised ELSE [raised |-> FALSE]

\* any exception gives the empty configuration
load_validation_config(v) ==
    IF find_single_validation_config(v).raised THEN <<>>
    ELSE IF read_kolommen_config(v).raised THEN <<>>
    ELSE read_kolommen_config(v).config

XlsxSuffix == <<".", "x", "l", "s", "x">>
CsvSuffix == <<".", "c", "s", "v">>
InputColumnsSuffix == <<"_", "I", "n", "p", "u", "t", "C", "o", "l", "u", "m", "n", "s">>

\* Path.stem: the name without its last suffix
Stem(name) ==
    LET dots == {i \in 2..Len(name) : name[i] = "."}
    IN IF dots = {} THEN name
       ELSE SubSeq(name, 1, (CHOOSE i \in dots : \A j \in dots : j <= i) - 1)

\* sources[label] = path on a dict kept as a sequence of [label, path]
PutSource(sources, label, path) ==
    IF \E i \in 1..Len(sources) : sources[i].label = label
    THEN [i \in 1..Len(sources) |->
             IF sources[i].label = label THEN [label |-> label, path |-> path]
             ELSE sources[i]]
    ELSE Append(sources, [label |-> label, path |-> path])

\* sources.update(more)
RECURSIVE UpdateSources(_, _)
UpdateSources(sources, more) ==
    IF more = <<>> THEN sources
    ELSE UpdateSources(PutSource(sources, Head(more).label, Head(more).path), Tail(more))

\* the loop of _discover_single_files over the sorted file names
RECURSIVE SingleFilesLoop(_, _, _)
SingleFilesLoop(dir, names, sources) ==
    IF names = <<>> THEN sources
    ELSE SingleFilesLoop(dir, Tail(names),
                         PutSource(sources, Stem(Head(names)),
                                   [dir |-> dir, name |-> Head(names), combined |-> FALSE]))

\* entries is the set of [name, is_dir, combines] of the directory dir
discover_single_files(dir, entries) ==
    SingleFilesLoop(dir,
                    SortNames({e.name : e \in {f \in entries :
                                  /\ ~f.is_dir
                                  /\ EndsWith(f.name, XlsxSuffix) \/ EndsWith(f.name, CsvSuffix)}}),
                    <<>>)

\* the loop of _discover_folder_bundles over the sorted subdirectories: one
\* that cannot be combined gives no source
RECURSIVE FolderBundlesLoop(_, _, _, _)
FolderBundlesLoop(dir, entries, names, sources) ==
    IF names = <<>> THEN sources
    ELSE FolderBundlesLoop(
             dir, entries, Tail(names),
             IF \E e \in entries : e.name = Head(names) /\ e.is_dir /\ e.combines
             THEN PutSource(sources, Head(names),
                            [dir |-> dir, name |-> Head(names), combined |-> TRUE])
             ELSE sources)

discover_folder_bundles(dir, entries) ==
    FolderBundlesLoop(dir, entries, SortNames({e.name : e \in {f \in entries : f.is_dir}}),
                      <<>>)

discover_input_sources(dir, entries) ==
    UpdateSources(discover_single_files(dir, entries), discover_folder_bundles(dir, entries))

handle_source_conflict(label, sources) ==
    IF \E i \in 1..Len(sources) : sources[i].label = label
    THEN label \o InputColumnsSuffix
    ELSE label

\* the dict comprehension of _discover_alternative_sources
RECURSIVE AlternativeLoop(_, _, _)
AlternativeLoop(alt_sources, sources, renamed) ==
    IF alt_sources = <<>> THEN renamed
    ELSE AlternativeLoop(Tail(alt_sources), sources,
                         PutSource(renamed,
                                   handle_source_conflict(Head(alt_sources).label, sources),
                                   Head(alt_sources).path))

discover_alternative_sources(sources, entries) ==
    AlternativeLoop(discover_input_sources("InputColumns", entries), sources, <<>>)

\* dirs.primary and dirs.alternative are the entries of Data/Input and
\* Data/InputColumns
discover_all_sources(dirs) ==
    UpdateSources(discover_input_sources("Input", dirs.primary),
                  discover_alternative_sources(discover_input_sources("Input", dirs.primary),
                                               dirs.alternative))

InfoName == <<"I", "n", "f", "o">>

create_info_dataframe(message) == Table(<<InfoName>>, <<<<message>>>>)

\* variant: the table is written as it is
write_dataframe_as_is(df) == df

\* the table that to_excel writes to the sheet; the message of the
\* information row is held as one piece of text
write_dataframe_or_info(df) ==
    IF IsEmpty(df)
    THEN create_info_dataframe(
             <<"Geen data gevonden in een of meer bronnen of configuratie leeg.">>)
    ELSE SelectColumns(df, SelectSeq(df.cols, LAMBDA c : c # BronMatchName))

\* str.replace(sub, ""): every occurrence of sub is taken out, left to right
RECURSIVE Remove(_, _)
Remove(s, sub) ==
    IF s = <<>> THEN <<>>
    ELSE IF StartsWith(s, sub) THEN Remove(SubSeq(s, Len(sub) + 1, Len(s)), sub)
    ELSE <<Head(s)>> \o Remove(Tail(s), sub)

\* the names taken from the columns of result_df with the prefix whose cell
\* in row r is "nee", Match_Key left out
NeeColumns(result_df, r, prefix) ==
    LET hits == SelectSeq(result_df.cols,
                          LAMBDA c : /\ StartsWith(c, prefix)
                                     /\ c # MatchKeyName
                                     /\ Column(result_df, c)[r] = nee)
    IN [i \in 1..Len(hits) |-> Remove(hits[i], prefix)]

get_missing_sources(result_df, r) == NeeColumns(result_df, r, AanwezigPrefix)

get_mismatched_columns(result_df, r) == NeeColumns(result_df, r, MatchPrefix)

\* the lines logged for row r: none when BronMatch is "ja", else a line for
\* the missing sources and a line for the mismatched columns, each only when
\* it has a name to give
LogRow(result_df, r) ==
    IF Column(result_df, BronMatchName)[r] = ja THEN <<>>
    ELSE LET key_val == Column(result_df, KeyName)[r]
             missing_sources == get_missing_sources(result_df, r)
             mismatched_columns == get_mismatched_columns(result_df, r)
         IN (IF missing_sources # <<>>
             THEN <<[kind |-> "ontbreekt", key |-> key_val, names |-> missing_sources]>>
             ELSE <<>>)
            \o
            (IF mismatched_columns # <<>>
             THEN <<[kind |-> "mismatch", key |-> key_val, names |-> mismatched_columns]>>
             ELSE <<>>)

RECURSIVE LogRows(_, _)
LogRows(result_df, r) ==
    IF r > NRows(result_df) THEN <<>>
    ELSE LogRow(result_df, r) \o LogRows(result_df, r + 1)

log_mismatches(result_df) == LogRows(result_df, 1)

\* variant: the key column is added to the caller's table, and the
\* normalized Key column too
source_after_projection_in_place(df, key_column) ==
    IF IsEmpty(df) THEN df
    ELSE LET df_with_key == ensure_key_column_exists(df, key_column)
             keys == Column(df_with_key, key_column)
         IN SetColumn(df_with_key, KeyName,
                      [r \in 1..NRows(df) |-> normalize_key_value(keys[r])])

\* the caller's table after _project_single_source_data: the key column is
\* added to df.copy() and Key to df[keep_cols].copy(), never to df
source_after_projection(df, key_column) == df

\* source_to_df after compare_sources
sources_after_compare(s2d, key_column) ==
    [i \in 1..Len(s2d) |->
        [label |-> s2d[i].label, df |-> source_after_projection(s2d[i].df, key_column)]]

-----------------------------------------------------------------------------
(* Sheet run: the sources of one sheet are compared and summarised *)

MaxRows == 3

IDName == <<"I", "D">>
AmtName == <<"A", "m", "t">>
ValName == <<"v", "a", "l">>

SourceLabels == <<<<"A">>, <<"B">>, <<"C">>>>

SheetName == <<"S">>

KeyColumns == {IDName, KeyName}

\* raw key cells: "1" and "1." are one key, "2" another
RawKeys == {NA, <<"1">>, <<"1", ".">>, <<"2">>}

\* comparison cells: val has two values to differ in, Amt one
Values(c) == IF c = ValName THEN {NA, <<"x">>, <<"y">>} ELSE {NA, <<"x">>}

\* the header row of the sheet's configuration: the key column and the others
ConfiguredColumns(key_column) == {<<key_column>>, <<AmtName, key_column, ValName>>}

\* the columns a loaded source table can have: a source can lack a comparison
\* column, and it can lack the key column
SourceShapes(key_column) == {<<key_column, ValName>>, <<key_column, AmtName>>, <<ValName>>}

CellDomain(key_column, c) == IF c = key_column THEN RawKeys ELSE Values(c)

RECURSIVE RowsOver(_, _)
RowsOver(key_column, cols) ==
    IF cols = <<>> THEN {<<>>}
    ELSE {<<v>> \o rest : v \in CellDomain(key_column, Head(cols)),
                          rest \in RowsOver(key_column, Tail(cols))}

\* the tables of nrows rows; a source that could not be read, or has no row, is
\* the empty table
TablesOf(key_column, nrows) ==
    IF nrows = 0 THEN {Table(<<>>, <<>>)}
    ELSE UNION {{Table(cols, rows) : rows \in [1..nrows -> RowsOver(key_column, cols)]} :
                   cols \in SourceShapes(key_column)}

Source(i, df) == [label |-> SourceLabels[i], df |-> df]

\* the ways to load up to three sources with at most MaxRows rows in all
LoadedSources(key_column, loaded) ==
    \/ loaded = <<>>
    \/ \E k1 \in 0..MaxRows :
       \E d1 \in TablesOf(key_column, k1) :
           loaded = <<Source(1, d1)>>
    \/ \E k1 \in 0..MaxRows :
       \E k2 \in 0..(MaxRows - k1) :
       \E d1 \in TablesOf(key_column, k1), d2 \in TablesOf(key_column, k2) :
           loaded = <<Source(1, d1), Source(2, d2)>>
    \/ \E k1 \in 0..MaxRows :
       \E k2 \in 0..(MaxRows - k1) :
       \E k3 \in 0..(MaxRows - k1 - k2) :
       \E d1 \in TablesOf(key_column, k1), d2 \in TablesOf(key_column, k2),
          d3 \in TablesOf(key_column, k3) :
           loaded = <<Source(1, d1), Source(2, d2), Source(3, d3)>>

NormIdle ==
    /\ raw = NA
    /\ norm = NA
    /\ norm2 = NA
    /\ npc = "idle"

AuxIdle ==
    /\ projection = <<>>
    /\ written = [cols |-> <<>>, rows |-> <<>>]
    /\ log = <<>>
    /\ permuted = [raised |-> FALSE]
    /\ input_dirs = [primary |-> {}, alternative |-> {}]
    /\ source_map = <<>>

RunIdle ==
    /\ validation = [candidates |-> 0, opens |-> FALSE, sheets |-> <<>>]
    /\ config = <<>>
    /\ source_files = <<>>
    /\ sheet_idx = 0
    /\ sheet_summaries = <<>>
    /\ duplicate_records = <<>>
    /\ dashboard_records = <<>>
    /\ writer = NoWriter
    /\ report = [written |-> FALSE]
    /\ rpc = "idle"

Init ==
    /\ NormIdle
    /\ \E key_column \in KeyColumns :
        /\ \E columns \in ConfiguredColumns(key_column) :
               cfg = [columns |-> columns, key_column |-> key_column]
        /\ LoadedSources(key_column, source_to_df)
    /\ outcome = [raised |-> FALSE]
    /\ summary = [Totaal |-> 0]
    /\ pc = "loaded"
    /\ duplicates = <<>>
    /\ RunIdle
    /\ AuxIdle

\* process_single_sheet up to the comparison; an exception ends the sheet
CompareSheetData ==
    /\ pc = "loaded"
    /\ outcome' = compare_sheet_data(source_to_df, cfg)
    /\ pc' = IF outcome'.raised THEN "raised" ELSE "compared"
    /\ UNCHANGED <<raw, norm, norm2, npc, source_to_df, cfg, summary, duplicates, run_vars, aux_vars>>

CreateSummary ==
    /\ pc = "compared"
    /\ summary' = create_summary(SheetName, outcome.df)
    /\ pc' = "summarised"
    /\ UNCHANGED <<raw, norm, norm2, npc, source_to_df, cfg, outcome, duplicates, run_vars, aux_vars>>

Next == CompareSheetData \/ CreateSummary

Spec == Init /\ [][Next]_vars

-----------------------------------------------------------------------------
(* Normalizer run: one raw key cell is normalized, and its result once more *)

MaxLen == 4

KeyAlphabet == {"1", ",", ".", " ", "\t", "a", "A"}

Lit_12c345d00 == <<"1", "2", ",", "3", "4", "5", ".", "0", "0">>
Lit_12345d00 == <<"1", "2", "3", "4", "5", ".", "0", "0">>
Lit_12345 == <<"1", "2", "3", "4", "5">>
Lit_1234500 == <<"1", "2", "3", "4", "5", "0", "0">>
Lit_s123s == <<" ", "1", "2", "3", " ">>
Lit_123 == <<"1", "2", "3">>
Lit_cd == <<",", ".">>

RawInputs ==
    {NA, Lit_12c345d00, Lit_12345d00, Lit_12345, Lit_s123s, Lit_cd}
        \cup UNION {[1..n -> KeyAlphabet] : n \in 0..MaxLen}

SheetIdle ==
    /\ source_to_df = <<>>
    /\ cfg = [columns |-> <<>>, key_column |-> <<>>]
    /\ outcome = [raised |-> FALSE]
    /\ summary = [Totaal |-> 0]
    /\ pc = "idle"
    /\ duplicates = <<>>

NInit ==
    /\ raw \in RawInputs
    /\ norm = NA
    /\ norm2 = NA
    /\ npc = "start"
    /\ SheetIdle
    /\ RunIdle
    /\ AuxIdle

Normalize ==
    /\ npc = "start"
    /\ norm' = normalize_key_value(raw)
    /\ npc' = "normalized"
    /\ UNCHANGED <<raw, norm2, source_to_df, cfg, outcome, summary, pc, duplicates, run_vars, aux_vars>>

NormalizeAgain ==
    /\ npc = "normalized"
    /\ norm2' = normalize_key_value(norm)
    /\ npc' = "renormalized"
    /\ UNCHANGED <<raw, norm, source_to_df, cfg, outcome, summary, pc, duplicates, run_vars, aux_vars>>

NNext == Normalize \/ NormalizeAgain

NormSpec == NInit /\ [][NNext]_vars

-----------------------------------------------------------------------------
(* Duplicate run: the duplicate keys of the sources of one sheet are listed *)

\* raw key cells: "1", "1." and "1 " are one key, "2" and " 2" another
DupRawKeys == RawKeys \cup {<<"1", " ">>, <<" ", "2">>}

\* the tables of nrows rows of a source: the key column alone, or a table
\* without the key column
DupTablesOf(key_column, nrows) ==
    IF nrows = 0 THEN {Table(<<>>, <<>>)}
    ELSE {Table(<<key_column>>, [r \in 1..nrows |-> <<keys[r]>>]) :
              keys \in [1..nrows -> DupRawKeys]}
         \cup {Table(<<ValName>>, [r \in 1..nrows |-> <<<<"x">>>>])}

DInit ==
    /\ NormIdle
    /\ RunIdle
    /\ AuxIdle
    /\ \E key_column \in KeyColumns :
        /\ cfg = [columns |-> <<key_column>>, key_column |-> key_column]
        /\ \E k1 \in 0..MaxRows :
           \E k2 \in 0..(MaxRows - k1) :
           \E d1 \in DupTablesOf(key_column, k1), d2 \in DupTablesOf(key_column, k2) :
               source_to_df = <<Source(1, d1), Source(2, d2)>>
    /\ outcome = [raised |-> FALSE]
    /\ summary = [Totaal |-> 0]
    /\ duplicates = <<>>
    /\ pc = "dup_loaded"

FindAllDuplicates ==
    /\ pc = "dup_loaded"
    /\ duplicates' = find_all_duplicates(source_to_df,
                                         process_sheet_configuration(cfg).key_column,
                                         SheetName)
    /\ pc' = "dup_done"
    /\ UNCHANGED <<raw, norm, norm2, npc, source_to_df, cfg, outcome, summary, run_vars, aux_vars>>

\* process_single_sheet, next: the dashboard records of the same tables
CreateDashboardRecords ==
    /\ pc = "dup_done"
    /\ dashboard_records' =
           create_dashboard_records(SheetName,
                                    process_sheet_configuration(cfg).key_column,
                                    source_to_df)
    /\ pc' = "dup_dashboard"
    /\ UNCHANGED <<raw, norm, norm2, npc, source_to_df, cfg, outcome, summary, duplicates,
                   validation, config, source_files, sheet_idx, sheet_summaries,
                   duplicate_records, writer, report, rpc, aux_vars>>

DNext == FindAllDuplicates \/ CreateDashboardRecords

DupSpec == DInit /\ [][DNext]_vars

-----------------------------------------------------------------------------
(* Batch run: run() over the configured sheets, two sources *)

MaxSheets == 2

SheetNames == <<<<"S", "1">>, <<"S", "2">>, <<"S", "3">>, <<"S", "4">>>>

\* what loading a source for a sheet can give: nothing (the load failed or the
\* sheet has no row), one row, or two rows with one key
RunTables(key_column) ==
    {Table(<<>>, <<>>),
     Table(<<key_column, ValName>>, <<<<<<"1">>, <<"x">>>>>>),
     Table(<<key_column, ValName>>, <<<<<<"1">>, <<"x">>>>, <<<<"1", ".">>, <<"x">>>>>>)}

\* a sheet of Kolommen.xlsx, read without a header, and what the sources hold
\* under its name.  MarkedSheet has the header key_column, val and the key
\* marker under key_column; MarkedSheetWithBron has a Bron column in front
\* and blanks around the marker; UnmarkedSheets give no configuration: no
\* row; a header and no second row; no key marker; no column besides Bron
\* and empty cells.
SheetInputs ==
    LET MarkedSheet(key_column) ==
            <<<<key_column, ValName>>, <<<<"K", "e", "y">>, NA>>>>
        MarkedSheetWithBron ==
            <<<<<<"B", "r", "o", "n">>, IDName, ValName>>,
              <<NA, <<" ", "k", "e", "y", " ">>, NA>>>>
        UnmarkedSheets ==
            {<<>>,
             <<<<IDName, ValName>>>>,
             <<<<IDName, ValName>>, <<NA, <<"x">>>>>>,
             <<<<<<"B", "r", "o", "n">>, NA>>, <<<<"k", "e", "y">>, NA>>>>}
        OneRow == Table(<<IDName, ValName>>, <<<<<<"1">>, <<"x">>>>>>)
    IN UNION {{[df |-> MarkedSheet(key_column),
                sources |-> <<Source(1, d1), Source(2, d2)>>] :
                   d1 \in RunTables(key_column), d2 \in RunTables(key_column)} :
              key_column \in KeyColumns}
       \cup {[df |-> df, sources |-> <<Source(1, OneRow), Source(2, OneRow)>>] :
                 df \in UnmarkedSheets \cup {MarkedSheetWithBron}}

\* _load_source_data: what the sources hold under the sheet's name
load_source_data(files, sheet_name) ==
    files[CHOOSE k \in 1..Len(files) : SheetNames[k] = sheet_name]

\* the Validation folder holds no, one or two *.xlsx, the workbook opens or
\* does not, and it has up to MaxSheets sheets
RInit ==
    /\ NormIdle
    /\ SheetIdle
    /\ AuxIdle
    /\ \E n \in 0..MaxSheets :
       \E inputs \in [1..n -> SheetInputs] :
       \E folder \in {[candidates |-> 1, opens |-> TRUE], [candidates |-> 1, opens |-> FALSE],
                      [candidates |-> 0, opens |-> FALSE], [candidates |-> 2, opens |-> TRUE]} :
           /\ validation =
                  [candidates |-> folder.candidates,
                   opens |-> folder.opens,
                   sheets |-> IF folder.candidates = 0 THEN <<>>
                              ELSE [i \in 1..n |-> [sheet_name |-> SheetNames[i],
                                                    df |-> inputs[i].df]]]
           /\ source_files = [i \in 1..n |-> inputs[i].sources]
    /\ config = <<>>
    /\ sheet_idx = 0
    /\ sheet_summaries = <<>>
    /\ duplicate_records = <<>>
    /\ dashboard_records = <<>>
    /\ writer = NoWriter
    /\ report = [written |-> FALSE]
    /\ rpc = "start"

sheet_vars == <<raw, norm, norm2, npc, source_to_df, cfg, outcome, summary, pc, duplicates,
                aux_vars>>

\* run: the configuration is loaded; an empty one ends the run, else
\* _process_all_sheets opens the data writer and enters the loop
StartRun ==
    /\ rpc = "start"
    /\ config' = load_validation_config(validation)
    /\ IF config' = <<>>
       THEN /\ rpc' = "returned"
            /\ UNCHANGED <<writer, sheet_idx>>
       ELSE /\ writer' = create_excel_writer
            /\ sheet_idx' = 1
            /\ rpc' = "sheet"
    /\ UNCHANGED <<validation, source_files, sheet_summaries, duplicate_records,
                   dashboard_records, report>>
    /\ UNCHANGED sheet_vars

\* sheet_summaries.append, duplicate_records.extend, dashboard_records.extend
CollectRecords(res) ==
    /\ sheet_summaries' = Append(sheet_summaries, res.summary)
    /\ duplicate_records' = duplicate_records \o res.duplicates
    /\ dashboard_records' = dashboard_records \o res.dashboard_records

\* the first half of the loop body: the sheet's records are collected
ProcessSheetWithErrorHandling ==
    /\ rpc = "sheet"
    /\ CollectRecords(process_sheet_with_error_handling(config[sheet_idx].sheet_name,
                                                        config[sheet_idx].cfg,
                                                        load_source_data(
                                                            source_files,
                                                            config[sheet_idx].sheet_name)))
    /\ rpc' = "data"
    /\ UNCHANGED <<validation, config, source_files, sheet_idx, writer, report>>
    /\ UNCHANGED sheet_vars

\* where the loop goes after _process_sheet_data_only: an exception leaves the
\* with block, _process_all_sheets and run; the last sheet leaves the with block
LoopStep(res) ==
    IF res.raised
    THEN /\ writer' = writer_exit(writer)
         /\ rpc' = "escaped"
         /\ UNCHANGED sheet_idx
    ELSE IF sheet_idx = Len(config)
    THEN /\ writer' = writer_exit(res.writer)
         /\ rpc' = "report"
         /\ UNCHANGED sheet_idx
    ELSE /\ writer' = res.writer
         /\ rpc' = "sheet"
         /\ sheet_idx' = sheet_idx + 1

\* the second half of the loop body: the sheet is written to the data writer
ProcessSheetDataOnly ==
    /\ rpc = "data"
    /\ LoopStep(process_sheet_data_only(writer, config[sheet_idx].sheet_name,
                                        config[sheet_idx].cfg,
                                        load_source_data(source_files,
                                                         config[sheet_idx].sheet_name)))
    /\ UNCHANGED <<validation, config, source_files, sheet_summaries, duplicate_records,
                   dashboard_records, report>>
    /\ UNCHANGED sheet_vars

\* Testresultaat.xlsx: the duplicates, summary, dashboard and logs sheets
WriteTestResults ==
    /\ rpc = "report"
    /\ report' = [written |-> TRUE,
                  duplicates |-> duplicate_records,
                  summary |-> sheet_summaries,
                  dashboard |-> dashboard_records]
    /\ rpc' = "done"
    /\ UNCHANGED <<validation, config, source_files, sheet_idx, sheet_summaries,
                   duplicate_records, dashboard_records, writer>>
    /\ UNCHANGED sheet_vars

RNext ==
    \/ StartRun
    \/ ProcessSheetWithErrorHandling
    \/ ProcessSheetDataOnly
    \/ WriteTestResults

RunSpec == RInit /\ [][RNext]_vars

-----------------------------------------------------------------------------
(* One-source run: a source is projected, compared, logged and written *)

OInit ==
    /\ NormIdle
    /\ RunIdle
    /\ AuxIdle
    /\ \E key_column \in KeyColumns :
       \E columns \in ConfiguredColumns(key_column) :
       \E k \in 0..MaxRows :
       \E d \in TablesOf(key_column, k) :
           /\ cfg = [columns |-> columns, key_column |-> key_column]
           /\ source_to_df = <<Source(1, d)>>
    /\ outcome = [raised |-> FALSE]
    /\ summary = [Totaal |-> 0]
    /\ pc = "one_loaded"
    /\ duplicates = <<>>

\* compare_sources, its first step: _project_source_data
ProjectSourceData ==
    /\ pc = "one_loaded"
    /\ projection' =
           project_source_data(
               source_to_df,
               FilterKeyColumn(process_sheet_configuration(cfg).columns_to_compare,
                               process_sheet_configuration(cfg).key_column),
               process_sheet_configuration(cfg).key_column)
    /\ pc' = "one_projected"
    /\ UNCHANGED <<raw, norm, norm2, npc, source_to_df, cfg, outcome, summary, duplicates,
                   run_vars, written, log, permuted, input_dirs, source_map>>

\* compare_sources to its end: the result, and the caller's tables after it
CompareProjected ==
    /\ pc = "one_projected"
    /\ outcome' = compare_sheet_data(source_to_df, cfg)
    /\ source_to_df' =
           sources_after_compare(source_to_df, process_sheet_configuration(cfg).key_column)
    /\ pc' = IF outcome'.raised THEN "one_raised" ELSE "one_compared"
    /\ UNCHANGED <<raw, norm, norm2, npc, cfg, summary, duplicates, run_vars, aux_vars>>

\* process_single_sheet after the comparison: the summary, its line, the
\* lines of the rows
SummariseAndLog ==
    /\ pc = "one_compared"
    /\ summary' = create_summary(SheetName, outcome.df)
    /\ log' = <<[kind |-> "sheet", sheet |-> summary'.Sheet, matches |-> summary'.Matches,
                  mismatches |-> summary'.Mismatches]>>
               \o log_mismatches(outcome.df)
    /\ pc' = "one_logged"
    /\ UNCHANGED <<raw, norm, norm2, npc, source_to_df, cfg, outcome, duplicates,
                   run_vars, projection, written, permuted, input_dirs, source_map>>

\* _process_sheet_data_only: _write_sheet_output of the result
WriteSheetOutput ==
    /\ pc = "one_logged"
    /\ written' = write_dataframe_or_info(outcome.df)
    /\ pc' = "one_written"
    /\ UNCHANGED <<raw, norm, norm2, npc, source_to_df, cfg, outcome, summary, duplicates,
                   run_vars, projection, log, permuted, input_dirs, source_map>>

OneSpec ==
    OInit /\ [][ProjectSourceData \/ CompareProjected \/ SummariseAndLog
                \/ WriteSheetOutput]_vars

-----------------------------------------------------------------------------
(* Permuted run: the sources of a sheet are compared in two orders *)

\* the tables of nrows rows with the key column and val
PermTablesOf(key_column, nrows) ==
    IF nrows = 0 THEN {Table(<<>>, <<>>)}
    ELSE {Table(<<key_column, ValName>>, rows) :
              rows \in [1..nrows -> {<<k, v>> : k \in {NA, <<"1">>, <<"2">>},
                                                v \in Values(ValName)}]}

\* two or three sources with at most MaxRows rows in all
PInit ==
    /\ NormIdle
    /\ RunIdle
    /\ AuxIdle
    /\ \E key_column \in KeyColumns :
        /\ cfg = [columns |-> <<AmtName, key_column, ValName>>, key_column |-> key_column]
        /\ \E k1 \in 0..MaxRows :
           \E k2 \in 0..(MaxRows - k1) :
           \E k3 \in 0..(MaxRows - k1 - k2) :
           \E d1 \in PermTablesOf(key_column, k1), d2 \in PermTablesOf(key_column, k2),
              d3 \in PermTablesOf(key_column, k3) :
               \/ source_to_df = <<Source(1, d1), Source(2, d2), Source(3, d3)>>
               \/ k3 = 0 /\ source_to_df = <<Source(1, d1), Source(2, d2)>>
    /\ outcome = [raised |-> FALSE]
    /\ summary = [Totaal |-> 0]
    /\ duplicates = <<>>
    /\ pc = "perm_loaded"

\* the orders of n sources
Orders(n) == {f \in [1..n -> 1..n] : \A i, j \in 1..n : f[i] = f[j] => i = j}

\* source_to_df with its entries in another order
Reordered(s2d, order) == [i \in 1..Len(s2d) |-> s2d[order[i]]]

\* compare_sources of the sources as loaded, and of the same in another order
ComparePermuted ==
    /\ pc = "perm_loaded"
    /\ outcome' = compare_sheet_data(source_to_df, cfg)
    /\ \E order \in Orders(Len(source_to_df)) :
           permuted' = [order |-> order,
                        outcome |-> compare_sheet_data(Reordered(source_to_df, order), cfg)]
    /\ pc' = "perm_done"
    /\ UNCHANGED <<raw, norm, norm2, npc, source_to_df, cfg, summary, duplicates, run_vars,
                   projection, written, log, input_dirs, source_map>>

PermSpec == PInit /\ [][ComparePermuted]_vars

-----------------------------------------------------------------------------
(* Discovery run: the sources of Data/Input and Data/InputColumns are found *)

\* what Data/Input and Data/InputColumns can hold: files, and subfolders
\* that combine to a workbook or do not
DirectoryEntries ==
    LET File(name) == [name |-> name, is_dir |-> FALSE, combines |-> FALSE]
        Folder(name, combines) == [name |-> name, is_dir |-> TRUE, combines |-> combines]
    IN [primary |->
            {File(<<"a">> \o XlsxSuffix), File(<<"a">> \o CsvSuffix),
             File(<<"c">> \o XlsxSuffix),
             File(<<"a">> \o InputColumnsSuffix \o XlsxSuffix),
             Folder(<<"a">>, TRUE), Folder(<<"c">>, FALSE)},
        alternative |->
            {File(<<"a">> \o XlsxSuffix), File(<<"c">> \o CsvSuffix),
             File(<<"a">> \o InputColumnsSuffix \o XlsxSuffix), Folder(<<"a">>, TRUE)}]

DiscInit ==
    /\ NormIdle
    /\ SheetIdle
    /\ validation = [candidates |-> 0, opens |-> FALSE, sheets |-> <<>>]
    /\ config = <<>>
    /\ source_files = <<>>
    /\ sheet_idx = 0
    /\ sheet_summaries = <<>>
    /\ duplicate_records = <<>>
    /\ dashboard_records = <<>>
    /\ writer = NoWriter
    /\ report = [written |-> FALSE]
    /\ projection = <<>>
    /\ written = [cols |-> <<>>, rows |-> <<>>]
    /\ log = <<>>
    /\ permuted = [raised |-> FALSE]
    /\ \E primary \in SUBSET DirectoryEntries.primary :
       \E alternative \in SUBSET DirectoryEntries.alternative :
           /\ \A e, f \in primary : e.name = f.name => e = f
           /\ \A e, f \in alternative : e.name = f.name => e = f
           /\ input_dirs = [primary |-> primary, alternative |-> alternative]
    /\ source_map = <<>>
    /\ rpc = "discover"

\* run, its first step: _discover_all_sources
DiscoverAllSources ==
    /\ rpc = "discover"
    /\ source_map' = discover_all_sources(input_dirs)
    /\ rpc' = "discovered"
    /\ UNCHANGED <<raw, norm, norm2, npc, source_to_df, cfg, outcome, summary, pc,
                   duplicates, validation, config, source_files, sheet_idx,
                   sheet_summaries, duplicate_records, dashboard_records, writer, report,
                   projection, written, log, permuted, input_dirs>>

DiscSpec == DiscInit /\ [][DiscoverAllSources]_vars

-----------------------------------------------------------------------------
(* Properties of the normalizer run *)

SetMin(S) == CHOOSE x \in S : \A y \in S : x <= y
SetMax(S) == CHOOSE x \in S : \A y \in S : x >= y

IsDigitChar(c) == c \in Digits

\* the normalization rules of the design, stated on positions: the text between
\* the first and the last non-whitespace character, without its blanks, and
\* reduced to its digits when it is a digit followed by digits, '.' and ','
RefNormalize(v) ==
    IF v = NA THEN NA
    ELSE LET inked == {i \in 1..Len(v) : v[i] \notin Whitespace} IN
         IF inked = {} THEN <<>>
         ELSE LET core == SubSeq(v, SetMin(inked), SetMax(inked))
                  t == SelectSeq(core, IsNotBlank)
                  numeric == /\ t[1] \in Digits
                             /\ {t[i] : i \in 1..Len(t)} \subseteq Digits \cup {",", "."}
              IN IF numeric THEN SelectSeq(t, IsDigitChar) ELSE t

\* C1: normalize_key_value gives, for every input, what the rules of the design
\* give: missing stays missing, a blank text becomes the empty text, blanks are
\* removed, a digit-led text of digits and separators loses its separators and
\* any other text keeps them; "12,345.00" gives "1234500", " 123 " gives "123"
\* and ",." stays ",.".
C1_NormalizeIsReference ==
    npc # "start" =>
        /\ norm = RefNormalize(raw)
        /\ raw = NA => norm = NA
        /\ raw = <<>> => norm = <<>> /\ norm # NA
        /\ raw = Lit_12c345d00 => norm = Lit_1234500
        /\ raw = Lit_s123s => norm = Lit_123
        /\ raw = Lit_cd => norm = Lit_cd
        /\ raw = <<"a", " ", "A">> => norm = <<"a", "A">>

C1_Witness == npc = "normalized" /\ raw = Lit_12c345d00 /\ norm = Lit_1234500

\* C2: normalizing a normalized key changes nothing.
C2_Idempotent == npc = "renormalized" => norm2 = norm

C2_Witness ==
    /\ npc = "renormalized"
    /\ raw # NA
    /\ \E i \in 1..Len(raw) : raw[i] = " "
    /\ \E i \in 1..Len(raw) : raw[i] = ","
    /\ norm # raw
    /\ norm2 = norm

ThreeRawKeys == {Lit_12c345d00, Lit_12345d00, Lit_12345}

\* C3 as stated: "12,345.00", "12345.00" and "12345" all normalize to one key.
C3_ThreeKeysOneKey ==
    (npc # "start" /\ raw \in ThreeRawKeys) => norm = normalize_key_value(Lit_12c345d00)

\* C3 as amended: "12,345.00" and "12345.00" normalize to the one key "1234500";
\* "12345" normalizes to "12345", which is another key.
C3_TwoKeysOneKey ==
    npc # "start" =>
        /\ raw \in {Lit_12c345d00, Lit_12345d00} => norm = Lit_1234500
        /\ raw = Lit_12345 => norm = Lit_12345 /\ norm # Lit_1234500

C3_Witness == npc = "normalized" /\ raw = Lit_12345d00 /\ norm = Lit_1234500

-----------------------------------------------------------------------------
(* Properties of the sheet run *)

\* compare_sources has returned a table
Produced == pc \in {"compared", "summarised"}

Cell(df, r, c) == df.rows[r][ColIndex(df, c)]

SourceCount == Len(source_to_df)
Label(i) == source_to_df[i].label

\* the comparison columns of the sheet: the configured columns but the key column
ComparisonColumns == SelectSeq(cfg.columns, LAMBDA c : c # cfg.key_column)

AanwezigName(i) == AanwezigPrefix \o Label(i)
ValueName(i, col) == Label(i) \o Underscore \o col
MatchName(col) == MatchPrefix \o col

\* the normalized keys of the rows of source i, in row order; a table without
\* the key column has a missing key on every row
SourceKeys(i) ==
    LET df == source_to_df[i].df
    IN [r \in 1..NRows(df) |->
           IF HasCol(df, cfg.key_column)
           THEN normalize_key_value(Cell(df, r, cfg.key_column))
           ELSE NA]

\* the key set of source i: its normalized keys, the missing one excluded
SourceKeySet(i) == {SourceKeys(i)[r] : r \in DOMAIN SourceKeys(i)} \ {NA}

\* C4: on every row Match_Key is "ja" when every Aanwezig_<source> is "ja", and
\* "nee" otherwise.
C4_MatchKeyIsAllPresent ==
    Produced =>
        \A r \in 1..NRows(outcome.df) :
            Cell(outcome.df, r, MatchKeyName) =
                JaNee(\A i \in 1..SourceCount : Cell(outcome.df, r, AanwezigName(i)) = ja)

C4_Witness ==
    /\ Produced
    /\ SourceCount = 3
    /\ \E r \in 1..NRows(outcome.df) :
           /\ Cell(outcome.df, r, MatchKeyName) = nee
           /\ Cell(outcome.df, r, AanwezigName(1)) = ja
           /\ Cell(outcome.df, r, AanwezigName(2)) = nee
           /\ Cell(outcome.df, r, AanwezigName(3)) = ja
    /\ \E r \in 1..NRows(outcome.df) :
           /\ Cell(outcome.df, r, MatchKeyName) = nee
           /\ Cell(outcome.df, r, AanwezigName(2)) = ja

\* C5: Aanwezig_<source> is "ja" on the rows whose Key is in the key set of the
\* source (its normalized keys, missing excluded) and "nee" on the others; a row
\* with a missing Key is "nee" for every source.
C5_PresenceIsMembership ==
    Produced =>
        \A r \in 1..NRows(outcome.df) : \A i \in 1..SourceCount :
            /\ Cell(outcome.df, r, AanwezigName(i)) =
                   JaNee(Cell(outcome.df, r, KeyName) \in SourceKeySet(i))
            /\ Cell(outcome.df, r, KeyName) = NA =>
                   Cell(outcome.df, r, AanwezigName(i)) = nee

C5_Witness ==
    /\ Produced
    /\ SourceCount = 2
    /\ \E r \in 1..NRows(outcome.df) :
           /\ Cell(outcome.df, r, KeyName) = NA
           /\ Cell(outcome.df, r, AanwezigName(1)) = nee
    /\ \E r \in 1..NRows(outcome.df) :
           /\ Cell(outcome.df, r, KeyName) = <<"1">>
           /\ Cell(outcome.df, r, AanwezigName(1)) = ja
           /\ Cell(outcome.df, r, AanwezigName(2)) = nee
    /\ \E r \in 1..NRows(source_to_df[1].df) :
           Cell(source_to_df[1].df, r, cfg.key_column) = <<"1", ".">>

\* the verdict the rule gives on row r for column col: every source's value
\* equals the first source's, or every source's value is missing
RuleVerdict(r, col) ==
    LET v(i) == Cell(outcome.df, r, ValueName(i, col))
    IN JaNee(\/ \A i \in 1..SourceCount : CellsEqual(v(1), v(i))
             \/ \A i \in 1..SourceCount : v(i) = NA)

\* C6: for one, two or three sources, Match_<column> is "ja" on a row when every
\* source's value of the column equals the first source's or every source's
\* value is missing, and "nee" otherwise.
C6_MatchColumnIsRule ==
    Produced =>
        \A r \in 1..NRows(outcome.df) : \A c \in 1..Len(ComparisonColumns) :
            Cell(outcome.df, r, MatchName(ComparisonColumns[c])) =
                RuleVerdict(r, ComparisonColumns[c])

\* C7: on every row BronMatch is "ja" when Match_Key and every Match_<column>
\* are "ja", and "nee" otherwise.
C7_BronMatchIsConjunction ==
    Produced =>
        \A r \in 1..NRows(outcome.df) :
            Cell(outcome.df, r, BronMatchName) =
                JaNee(/\ Cell(outcome.df, r, MatchKeyName) = ja
                      /\ \A c \in 1..Len(ComparisonColumns) :
                             Cell(outcome.df, r, MatchName(ComparisonColumns[c])) = ja)

C7_Witness ==
    /\ Produced
    /\ Len(ComparisonColumns) = 2
    /\ \E r \in 1..NRows(outcome.df) : Cell(outcome.df, r, BronMatchName) = ja
    /\ \E r \in 1..NRows(outcome.df) :
           /\ Cell(outcome.df, r, BronMatchName) = nee
           /\ Cell(outcome.df, r, MatchKeyName) = ja
           /\ Cell(outcome.df, r, MatchName(AmtName)) = nee
           /\ Cell(outcome.df, r, MatchName(ValName)) = ja

BronMatchRows(v) ==
    {r \in 1..NRows(outcome.df) : Cell(outcome.df, r, BronMatchName) = v}

\* C8: matches is the number of rows with BronMatch "ja", mismatches the other
\* rows, and the summary record holds the same numbers: Totaal the rows,
\* Matches and Mismatches adding up to it; all are 0 for a table without rows.
C8_CountsAgree ==
    /\ Produced =>
           /\ outcome.matches = Cardinality(BronMatchRows(ja))
           /\ outcome.mismatches = NRows(outcome.df) - outcome.matches
    /\ pc = "summarised" =>
           /\ summary.Totaal = NRows(outcome.df)
           /\ summary.Matches = outcome.matches
           /\ summary.Mismatches = outcome.mismatches
           /\ summary.Totaal = summary.Matches + summary.Mismatches
           /\ NRows(outcome.df) = 0 =>
                  summary = [Sheet |-> SheetName, Totaal |-> 0, Matches |-> 0,
                             Mismatches |-> 0]

C8_Witness ==
    /\ pc = "summarised"
    /\ summary.Matches = 1
    /\ summary.Mismatches = 2

\* the number of rows of source i with normalized key k
KeyCount(i, k) == Cardinality({r \in DOMAIN SourceKeys(i) : SourceKeys(i)[r] = k})

RECURSIVE Product(_, _)
Product(f, n) == IF n = 0 THEN 1 ELSE f[n] * Product(f, n - 1)

KeyRows(k) == {r \in 1..NRows(outcome.df) : Cell(outcome.df, r, KeyName) = k}

\* the key values of the sources, the missing key counting as a value
AllKeyValues ==
    UNION {{SourceKeys(i)[r] : r \in DOMAIN SourceKeys(i)} : i \in 1..SourceCount}

\* C9 as stated, rows with a missing key left aside: every key of a source is
\* on exactly one row, and there are as many rows as keys in the union of the
\* sources' key sets.
C9_OneRowPerKey ==
    Produced =>
        /\ \A k \in AllKeyValues \ {NA} : Cardinality(KeyRows(k)) = 1
        /\ NRows(outcome.df) - Cardinality(KeyRows(NA)) = Cardinality(AllKeyValues \ {NA})

\* C9 as amended: no key value of a source is dropped and no other key appears;
\* a key value (the missing key is joined like any other) is on as many rows as
\* the product of its numbers of occurrences in the sources that hold it. So
\* when no source holds a key value twice there is exactly one row per key
\* value and as many rows as key values in the union.
C9_RowsPerKeyIsProduct ==
    Produced =>
        /\ \A k \in AllKeyValues :
               Cardinality(KeyRows(k)) =
                   Product([i \in 1..SourceCount |->
                               IF KeyCount(i, k) = 0 THEN 1 ELSE KeyCount(i, k)],
                           SourceCount)
        /\ \A r \in 1..NRows(outcome.df) : Cell(outcome.df, r, KeyName) \in AllKeyValues
        /\ (\A i \in 1..SourceCount : \A k \in AllKeyValues : KeyCount(i, k) <= 1)
               => /\ \A k \in AllKeyValues : Cardinality(KeyRows(k)) = 1
                  /\ NRows(outcome.df) = Cardinality(AllKeyValues)

C9_Witness ==
    /\ Produced
    /\ SourceCount = 2
    /\ KeyCount(1, <<"1">>) = 2
    /\ KeyCount(2, <<"1">>) = 1
    /\ Cardinality(KeyRows(<<"1">>)) = 2
    /\ NRows(outcome.df) = 2

RECURSIVE ExpectedValueColumns(_)
ExpectedValueColumns(c) ==
    IF c > Len(ComparisonColumns) THEN <<>>
    ELSE [i \in 1..SourceCount |-> ValueName(i, ComparisonColumns[c])]
             \o <<MatchName(ComparisonColumns[c])>>
             \o ExpectedValueColumns(c + 1)

ExpectedColumns ==
    <<KeyName>>
        \o [i \in 1..SourceCount |-> AanwezigName(i)]
        \o <<MatchKeyName, BronMatchName>>
        \o [i \in 1..SourceCount |-> Label(i) \o Underscore \o KeyName]
        \o ExpectedValueColumns(1)

\* C10: the columns of the returned table are, in this order and each once:
\* Key, Aanwezig_<source> per source, Match_Key, BronMatch, <source>_Key per
\* source, then per comparison column <source>_<column> per source and
\* Match_<column>.
C10_ColumnOrder ==
    Produced =>
        /\ outcome.df.cols = ExpectedColumns
        /\ \A i, j \in 1..Len(outcome.df.cols) :
               outcome.df.cols[i] = outcome.df.cols[j] => i = j

C10_Witness ==
    /\ Produced
    /\ SourceCount = 3
    /\ Len(ComparisonColumns) = 2
    /\ NRows(outcome.df) = 3
    /\ Len(outcome.df.cols) = 17

\* the rows of source i whose normalized key is k
SourceRowsWithKey(i, k) == {s \in DOMAIN SourceKeys(i) : SourceKeys(i)[s] = k}

\* the cell of row s of source i under column c, missing when the source has
\* no such column
SourceValue(i, s, c) ==
    IF HasCol(source_to_df[i].df, c) THEN Cell(source_to_df[i].df, s, c) ELSE NA

SourceKeyName(i) == Label(i) \o Underscore \o KeyName

\* C11: on every row and for every source, <source>_Key is the original value
\* of the key column on a row of that source with the row's key, and it is
\* missing when the source has no row with that key; whatever the names of the
\* key column and the comparison columns.
C11_SourceKeyIsOriginal ==
    Produced =>
        \A r \in 1..NRows(outcome.df) : \A i \in 1..SourceCount :
            LET held == SourceRowsWithKey(i, Cell(outcome.df, r, KeyName))
            IN IF held = {}
               THEN Cell(outcome.df, r, SourceKeyName(i)) = NA
               ELSE Cell(outcome.df, r, SourceKeyName(i)) \in
                        {SourceValue(i, s, cfg.key_column) : s \in held}

\* C12: on every row and for every source, the cells <source>_<column> are the
\* values of one row of that source with the row's key, each under its own
\* column and missing where the source lacks the column; they are all missing
\* when the source has no row with that key.
C12_SourceValueIsOwn ==
    Produced =>
        \A r \in 1..NRows(outcome.df) : \A i \in 1..SourceCount :
            LET held == SourceRowsWithKey(i, Cell(outcome.df, r, KeyName))
            IN IF held = {}
               THEN \A c \in 1..Len(ComparisonColumns) :
                        Cell(outcome.df, r, ValueName(i, ComparisonColumns[c])) = NA
               ELSE \E s \in held : \A c \in 1..Len(ComparisonColumns) :
                        Cell(outcome.df, r, ValueName(i, ComparisonColumns[c])) =
                            SourceValue(i, s, ComparisonColumns[c])

C12_Witness ==
    /\ Produced
    /\ SourceCount = 2
    /\ Len(ComparisonColumns) = 2
    /\ ~HasCol(source_to_df[1].df, AmtName)
    /\ \E r \in 1..NRows(outcome.df) :
           /\ Cell(outcome.df, r, ValueName(1, ValName)) = <<"x">>
           /\ Cell(outcome.df, r, ValueName(2, ValName)) = <<"y">>
           /\ Cell(outcome.df, r, ValueName(1, AmtName)) = NA
    /\ \E r \in 1..NRows(outcome.df) :
           /\ Cell(outcome.df, r, AanwezigName(2)) = nee
           /\ Cell(outcome.df, r, ValueName(2, ValName)) = NA
           /\ Cell(outcome.df, r, ValueName(1, ValName)) = <<"y">>

\* source i has a row, every row has a key, and no key is on two rows
KeysOnceEach(i) ==
    /\ NRows(source_to_df[i].df) > 0
    /\ \A s \in DOMAIN SourceKeys(i) : SourceKeys(i)[s] # NA
    /\ \A s, t \in DOMAIN SourceKeys(i) : SourceKeys(i)[s] = SourceKeys(i)[t] => s = t

\* two sources, the same keys in both, and for each key the same value under
\* every comparison column (a value both lack included)
SameRows ==
    /\ SourceCount = 2
    /\ KeysOnceEach(1)
    /\ KeysOnceEach(2)
    /\ SourceKeySet(1) = SourceKeySet(2)
    /\ \A s \in DOMAIN SourceKeys(1) : \A t \in DOMAIN SourceKeys(2) :
           SourceKeys(1)[s] = SourceKeys(2)[t] =>
               \A c \in 1..Len(ComparisonColumns) :
                   SourceValue(1, s, ComparisonColumns[c]) =
                       SourceValue(2, t, ComparisonColumns[c])

\* C13: two sources that hold the same rows give one row per key, with
\* Match_Key, every Match_<column> and BronMatch "ja" on every row, matches the
\* number of keys and mismatches 0.
C13_SameRowsAllMatch ==
    (pc # "loaded" /\ SameRows) =>
        /\ Produced
        /\ NRows(outcome.df) = Cardinality(SourceKeySet(1))
        /\ \A k \in SourceKeySet(1) : Cardinality(KeyRows(k)) = 1
        /\ \A r \in 1..NRows(outcome.df) :
               /\ Cell(outcome.df, r, MatchKeyName) = ja
               /\ Cell(outcome.df, r, BronMatchName) = ja
               /\ \A c \in 1..Len(ComparisonColumns) :
                      Cell(outcome.df, r, MatchName(ComparisonColumns[c])) = ja
        /\ outcome.matches = Cardinality(SourceKeySet(1))
        /\ outcome.mismatches = 0

C13_Witness ==
    /\ Produced
    /\ SameRows
    /\ Len(ComparisonColumns) = 2
    /\ source_to_df[1].df # source_to_df[2].df
    /\ \E r \in 1..NRows(outcome.df) :
           /\ Cell(outcome.df, r, ValueName(1, ValName)) = NA
           /\ Cell(outcome.df, r, ValueName(2, ValName)) = NA
           /\ Cell(outcome.df, r, MatchName(ValName)) = ja
           /\ Cell(outcome.df, r, BronMatchName) = ja

\* two sources, each key once, and no key in both
DisjointKeys ==
    /\ SourceCount = 2
    /\ KeysOnceEach(1)
    /\ KeysOnceEach(2)
    /\ SourceKeySet(1) \cap SourceKeySet(2) = {}

\* C14: two sources with disjoint key sets give one row per key of either
\* source; every row has exactly one Aanwezig_<source> "ja", and Match_Key and
\* BronMatch "nee".
C14_DisjointKeysAllAbsent ==
    (pc # "loaded" /\ DisjointKeys) =>
        /\ Produced
        /\ NRows(outcome.df) = Cardinality(SourceKeySet(1) \cup SourceKeySet(2))
        /\ \A k \in SourceKeySet(1) \cup SourceKeySet(2) : Cardinality(KeyRows(k)) = 1
        /\ \A r \in 1..NRows(outcome.df) :
               /\ Cardinality({i \in 1..SourceCount :
                                  Cell(outcome.df, r, AanwezigName(i)) = ja}) = 1
               /\ Cell(outcome.df, r, MatchKeyName) = nee
               /\ Cell(outcome.df, r, BronMatchName) = nee

C14_Witness ==
    /\ Produced
    /\ DisjointKeys
    /\ NRows(outcome.df) = 2
    /\ \E r \in 1..NRows(outcome.df) :
           /\ Cell(outcome.df, r, AanwezigName(1)) = ja
           /\ Cell(outcome.df, r, AanwezigName(2)) = nee
    /\ \E r \in 1..NRows(outcome.df) :
           /\ Cell(outcome.df, r, AanwezigName(1)) = nee
           /\ Cell(outcome.df, r, AanwezigName(2)) = ja

\* no source has data: there is no source, or every source table is empty
AllSourcesEmpty == \A i \in 1..SourceCount : IsEmpty(source_to_df[i].df)

\* C16: with no source, or with every source table empty, compare_sources does
\* not raise: it returns a table without rows in the fixed column order, with
\* matches 0 and mismatches 0.
C16_EmptyInputNeverRaises ==
    (pc # "loaded" /\ AllSourcesEmpty) =>
        /\ Produced
        /\ NRows(outcome.df) = 0
        /\ outcome.df.cols = ExpectedColumns
        /\ outcome.matches = 0
        /\ outcome.mismatches = 0

\* C17: a source that could not be loaded is an empty table; the sheet is still
\* reconciled from the other sources, and that source is "nee" on every row.
C17_FailedSourceIsAbsent ==
    (/\ pc # "loaded"
     /\ \E i \in 1..SourceCount : IsEmpty(source_to_df[i].df)
     /\ \E i \in 1..SourceCount : ~IsEmpty(source_to_df[i].df)) =>
        /\ Produced
        /\ \A i \in 1..SourceCount :
               IsEmpty(source_to_df[i].df) =>
                   \A r \in 1..NRows(outcome.df) :
                       Cell(outcome.df, r, AanwezigName(i)) = nee

-----------------------------------------------------------------------------
(* Properties of the sheet run: the key column among the comparison columns *)

\* how often a column name occurs in the result
Occurrences(name) ==
    Cardinality({i \in 1..Len(outcome.df.cols) : outcome.df.cols[i] = name})

KeyConfigured == \E i \in 1..Len(cfg.columns) : cfg.columns[i] = cfg.key_column

\* BronMatch of every row is "ja" exactly when every source is present and
\* every comparison column other than the key column matches
KeyInfluencesByPresenceOnly ==
    \A r \in 1..NRows(outcome.df) :
        /\ Cell(outcome.df, r, MatchKeyName) =
               JaNee(\A i \in 1..SourceCount : Cell(outcome.df, r, AanwezigName(i)) = ja)
        /\ Cell(outcome.df, r, BronMatchName) =
               JaNee(/\ \A i \in 1..SourceCount : Cell(outcome.df, r, AanwezigName(i)) = ja
                     /\ \A c \in 1..Len(ComparisonColumns) :
                            Cell(outcome.df, r, MatchName(ComparisonColumns[c])) = ja)

\* C26 as stated: a key column configured among the comparison columns is
\* filtered out, so the result has no Match_<keyColumn> and no
\* <source>_<keyColumn> column, and the key column bears on BronMatch through
\* presence only.
C26_KeyColumnNeverCompared ==
    (Produced /\ KeyConfigured) =>
        /\ Occurrences(MatchName(cfg.key_column)) = 0
        /\ \A i \in 1..SourceCount : Occurrences(ValueName(i, cfg.key_column)) = 0
        /\ KeyInfluencesByPresenceOnly

\* C26 amended: the result has no column derived from comparing the key
\* column: its columns are the fixed ones and those of the other comparison
\* columns, so Match_<keyColumn> and <source>_<keyColumn> occur only when
\* the key column is itself named Key, once each, as the presence verdict
\* Match_Key and the echoed key <source>_Key.
C26_KeyColumnOnlyFixedColumns ==
    (Produced /\ KeyConfigured) =>
        /\ Len(outcome.df.cols) =
               3 + 2 * SourceCount + Len(ComparisonColumns) * (SourceCount + 1)
        /\ Occurrences(MatchName(cfg.key_column)) =
               (IF cfg.key_column = KeyName THEN 1 ELSE 0)
        /\ \A i \in 1..SourceCount :
               Occurrences(ValueName(i, cfg.key_column)) =
                   (IF cfg.key_column = KeyName THEN 1 ELSE 0)
        /\ KeyInfluencesByPresenceOnly

\* two sources with the key column ID configured among three columns: one
\* key in both sources with every column equal, one key in one source only
C26_Witness ==
    /\ Produced
    /\ KeyConfigured
    /\ cfg.key_column = IDName
    /\ Len(cfg.columns) = 3
    /\ SourceCount = 2
    /\ \E r \in 1..NRows(outcome.df) : Cell(outcome.df, r, BronMatchName) = ja
    /\ \E r \in 1..NRows(outcome.df) : Cell(outcome.df, r, MatchKeyName) = nee

-----------------------------------------------------------------------------
(* Properties of the duplicate run *)

\* the records listed for source i and key k
DuplicateRecordsOf(i, k) ==
    {n \in 1..Len(duplicates) : duplicates[n].Bron = Label(i) /\ duplicates[n].Key = k}

\* C15: for each source there is exactly one record {Sheet, Bron, Key, Aantal}
\* per non-missing normalized key that is on more than one row of the source,
\* Aantal being its number of rows; a key on one row and the missing key have no
\* record, and there is no other record. Raw keys that differ by blanks or
\* numeric separators only are one key.
C15_OneRecordPerDuplicateKey ==
    pc \in {"dup_done", "dup_dashboard"} =>
        /\ \A i \in 1..SourceCount : \A k \in AllKeyValues \cup {NA} :
               IF k # NA /\ KeyCount(i, k) > 1
               THEN /\ Cardinality(DuplicateRecordsOf(i, k)) = 1
                    /\ \A n \in DuplicateRecordsOf(i, k) :
                           duplicates[n] = [Sheet |-> SheetName, Bron |-> Label(i),
                                            Key |-> k, Aantal |-> KeyCount(i, k)]
               ELSE DuplicateRecordsOf(i, k) = {}
        /\ \A n \in 1..Len(duplicates) :
               \E i \in 1..SourceCount :
                   /\ duplicates[n].Bron = Label(i)
                   /\ duplicates[n].Key \in SourceKeySet(i)

C15_Witness ==
    /\ pc = "dup_done"
    /\ duplicates = <<[Sheet |-> SheetName, Bron |-> <<"A">>, Key |-> <<"1">>, Aantal |-> 2]>>
    /\ NRows(source_to_df[1].df) = 2
    /\ Cell(source_to_df[1].df, 1, cfg.key_column) = <<"1", " ">>
    /\ Cell(source_to_df[1].df, 2, cfg.key_column) = <<"1", ".">>
    /\ NRows(source_to_df[2].df) = 1
    /\ Cell(source_to_df[2].df, 1, cfg.key_column) = <<"2">>

\* the sum of Aantal over the first n duplicate records that are of source i
RECURSIVE AantalSum(_, _)
AantalSum(i, n) ==
    IF n = 0 THEN 0
    ELSE AantalSum(i, n - 1)
         + (IF duplicates[n].Bron = Label(i) THEN duplicates[n].Aantal ELSE 0)

\* C29: for every source of the sheet the dashboard's Key_Duplicaten is the
\* sum of Aantal over the duplicate records of that sheet and source, and
\* Key_NonNull + Key_Null is Rijen.
C29_DashboardAgreesWithDuplicates ==
    pc = "dup_dashboard" =>
        /\ Len(dashboard_records) = SourceCount
        /\ \A i \in 1..SourceCount :
               /\ dashboard_records[i].Bron = Label(i)
               /\ dashboard_records[i].Sheet = SheetName
               /\ dashboard_records[i].Key_NonNull + dashboard_records[i].Key_Null
                      = dashboard_records[i].Rijen
               /\ dashboard_records[i].Key_Duplicaten = AantalSum(i, Len(duplicates))

-----------------------------------------------------------------------------
(* Properties of the batch run *)

\* processing sheet i raises
SheetFails(i) ==
    compare_sheet_data(load_source_data(source_files, config[i].sheet_name),
                       config[i].cfg).raised

RunEnded == rpc \in {"done", "escaped"}

RecordsOfSheet(records, sheet_name) ==
    {n \in 1..Len(records) : records[n].Sheet = sheet_name}

\* C18: when processing a sheet fails, that sheet has a summary record with
\* Totaal, Matches and Mismatches 0, no duplicate record and no dashboard
\* record, and every sheet configured after it is processed: it has its summary
\* record and is written to the data output.
C18_FailedSheetDoesNotStopRun ==
    RunEnded =>
        \A i \in 1..Len(config) :
            SheetFails(i) =>
                /\ i <= Len(sheet_summaries)
                /\ sheet_summaries[i] = create_error_summary(config[i].sheet_name)
                /\ RecordsOfSheet(duplicate_records, config[i].sheet_name) = {}
                /\ RecordsOfSheet(dashboard_records, config[i].sheet_name) = {}
                /\ \A j \in (i + 1)..Len(config) :
                       /\ j <= Len(sheet_summaries)
                       /\ sheet_summaries[j].Sheet = config[j].sheet_name
                       /\ ~SheetFails(j) =>
                              \E n \in 1..Len(writer.sheets) :
                                  writer.sheets[n] = config[j].sheet_name

\* C19: with sources and a non-empty configuration no error of a sheet leaves
\* run, and the run ends with the report written, its summary holding one
\* record per configured sheet in configuration order, a failed sheet as a
\* zero-valued record.
C19_RunAlwaysReports ==
    /\ rpc # "escaped"
    /\ rpc = "done" =>
           /\ report.written
           /\ Len(report.summary) = Len(config)
           /\ \A i \in 1..Len(config) :
                  /\ report.summary[i].Sheet = config[i].sheet_name
                  /\ SheetFails(i) =>
                         report.summary[i] = create_error_summary(config[i].sheet_name)

\* C20: the data writer is closed exactly once on every way out of
\* _process_all_sheets, an exception in a sheet included, never before the loop
\* is left, and the sheets written to it are the configured sheets in
\* configuration order, one after the other.
C20_WriterFinalizedOnce ==
    /\ writer.closes <= 1
    /\ rpc \in {"sheet", "data"} => writer.state = "open" /\ writer.closes = 0
    /\ rpc \in {"report", "done", "escaped"} =>
           writer.state = "closed" /\ writer.closes = 1
    /\ Len(writer.sheets) <= Len(config)
    /\ \A n \in 1..Len(writer.sheets) : writer.sheets[n] = config[n].sheet_name
    /\ rpc \in {"report", "done"} => Len(writer.sheets) = Len(config)
    /\ rpc = "escaped" => Len(writer.sheets) = sheet_idx - 1

C20_Witness ==
    /\ rpc = "escaped"
    /\ Len(config) = 2
    /\ sheet_idx = 2
    /\ writer = [state |-> "closed", sheets |-> <<config[1].sheet_name>>, closes |-> 1]

\* sheet i of Kolommen.xlsx has a row of names with a name to compare and,
\* in its second row, a key marker under a name
WellFormed(i) ==
    LET df == validation.sheets[i].df
    IN /\ Len(df) >= 2
       /\ \E c \in 1..Len(df[1]) :
              /\ df[1][c] # NA
              /\ Strip(df[1][c]) # <<>>
              /\ Lower(Strip(df[1][c])) # BronText
       /\ \E c \in 1..Len(df[2]) :
              /\ df[2][c] # NA
              /\ Lower(Strip(df[2][c])) = KeyMarker
              /\ Strip(AsStr(df[1][c])) # <<>>

\* the valid sheets of a configuration file that is there, alone and readable
ValidSheets ==
    IF validation.candidates = 1 /\ validation.opens
    THEN {i \in 1..Len(validation.sheets) : WellFormed(i)}
    ELSE {}

\* the k-th valid sheet
ValidSheet(k) ==
    CHOOSE i \in ValidSheets : Cardinality({j \in ValidSheets : j <= i}) = k

\* C23: when the configuration holds no valid sheet (no file, more than one
\* file, an unreadable file, or every sheet without columns or key marker)
\* run ends before a sheet is processed and before a writer is opened; with
\* at least one valid sheet the invalid sheets are left out and the valid
\* ones are processed, in their order.
C23_NoValidSheetStopsRun ==
    /\ ValidSheets = {} =>
           /\ rpc \in {"start", "returned"}
           /\ config = <<>>
           /\ writer = NoWriter
           /\ sheet_summaries = <<>>
           /\ duplicate_records = <<>>
           /\ dashboard_records = <<>>
           /\ ~report.written
    /\ (ValidSheets # {} /\ rpc # "start") =>
           /\ rpc # "returned"
           /\ writer # NoWriter
           /\ Len(config) = Cardinality(ValidSheets)
           /\ \A k \in 1..Len(config) :
                  config[k].sheet_name = validation.sheets[ValidSheet(k)].sheet_name
           /\ Len(sheet_summaries) <= Len(config)
           /\ \A k \in 1..Len(sheet_summaries) :
                  sheet_summaries[k].Sheet = config[k].sheet_name
           /\ \A k \in 1..Len(writer.sheets) : writer.sheets[k] = config[k].sheet_name
           /\ rpc = "done" =>
                  /\ Len(sheet_summaries) = Cardinality(ValidSheets)
                  /\ Len(writer.sheets) = Cardinality(ValidSheets)

\* of two sheets the first has no key marker and the second is valid: the
\* run is done with the second sheet alone
C23_Witness ==
    /\ rpc = "done"
    /\ Len(validation.sheets) = 2
    /\ ValidSheets = {2}
    /\ Len(validation.sheets[1].df) = 2
    /\ Len(sheet_summaries) = 1
    /\ sheet_summaries[1].Sheet = SheetNames[2]
    /\ sheet_summaries[1].Totaal > 0
    /\ writer.sheets = <<SheetNames[2]>>

-----------------------------------------------------------------------------
(* Properties of the one-source run *)

OneProjected == pc \in {"one_projected", "one_compared", "one_raised", "one_logged",
                        "one_written"}

OneCompared == pc \in {"one_compared", "one_logged", "one_written"}

\* the key column and the comparison columns the comparison works with
OneKeyColumn == process_sheet_configuration(cfg).key_column

OneColumns == FilterKeyColumn(process_sheet_configuration(cfg).columns_to_compare,
                              OneKeyColumn)

\* the source as it was loaded: CompareProjected leaves it as it is
OneSource == source_to_df[1].df

\* C21: every projected table, that of an empty source too, has a Key column
\* next to the original key column under its original name: as many Key
\* cells as rows, each the normalized cell of the key column, and the key
\* column holding the cells the source has under it.
C21_ProjectedHasKeyAndOriginal ==
    OneProjected =>
        \A i \in 1..Len(projection) :
            LET p == projection[i].df
            IN /\ HasCol(p, KeyName)
               /\ HasCol(p, OneKeyColumn)
               /\ NRows(p) = NRows(OneSource)
               /\ \A r \in 1..NRows(p) :
                      /\ Column(p, KeyName)[r] = normalize_key_value(Column(p, OneKeyColumn)[r])
                      /\ HasCol(OneSource, OneKeyColumn) =>
                             Column(p, OneKeyColumn)[r] = Column(OneSource, OneKeyColumn)[r]

\* the projection of the one source
OneProjection == projection[1].df

\* the comparison columns the source has, in configuration order
OnePresentColumns == SelectSeq(OneColumns, LAMBDA c : HasCol(OneSource, c))

\* C22: projecting a non-empty source never fails for an absent configured
\* name.  The projection holds the key column, the comparison columns the
\* source has, and Key: an absent comparison column is left out and is
\* missing for the source in the result; an absent key column is made of
\* missing values, so every Key of the source is missing and the source is
\* "nee" on every row.
C22_AbsentColumnsNeverFail ==
    (OneProjected /\ ~IsEmpty(OneSource)) =>
        /\ pc # "one_raised"
        /\ OneProjection.cols =
               <<OneKeyColumn>> \o OnePresentColumns
               \o (IF OneKeyColumn = KeyName THEN <<>> ELSE <<KeyName>>)
        /\ NRows(OneProjection) = NRows(OneSource)
        /\ \A i \in 1..Len(OnePresentColumns) :
               Column(OneProjection, OnePresentColumns[i])
                   = Column(OneSource, OnePresentColumns[i])
        /\ ~HasCol(OneSource, OneKeyColumn) =>
               \A r \in 1..NRows(OneProjection) :
                   /\ Column(OneProjection, OneKeyColumn)[r] = NA
                   /\ Column(OneProjection, KeyName)[r] = NA
        /\ OneCompared =>
               /\ NRows(outcome.df) = NRows(OneSource)
               /\ ~HasCol(OneSource, OneKeyColumn) =>
                      \A r \in 1..NRows(outcome.df) :
                          /\ Column(outcome.df, KeyName)[r] = NA
                          /\ Column(outcome.df, AanwezigPrefix \o SourceLabels[1])[r] = nee
               /\ \A i \in 1..Len(OneColumns) :
                      ~HasCol(OneSource, OneColumns[i]) =>
                          \A r \in 1..NRows(outcome.df) :
                              Column(outcome.df,
                                     SourceLabels[1] \o Underscore \o OneColumns[i])[r] = NA

\* a source of two rows without the key column and without the configured
\* Amt has been compared
C22_Witness ==
    /\ pc = "one_compared"
    /\ NRows(OneSource) = 2
    /\ ~HasCol(OneSource, OneKeyColumn)
    /\ \E i \in 1..Len(OneColumns) : ~HasCol(OneSource, OneColumns[i])
    /\ NRows(outcome.df) = 2

\* the columns of the result without BronMatch, in order
OneVisibleColumns == SelectSeq(outcome.df.cols, LAMBDA c : c # BronMatchName)

\* the written table is the result without BronMatch: the other columns in
\* the same order with the same cells
WrittenIsResultWithoutBronMatch ==
    /\ written.cols = OneVisibleColumns
    /\ NRows(written) = NRows(outcome.df)
    /\ \A i \in 1..Len(OneVisibleColumns) :
           Column(written, OneVisibleColumns[i]) = Column(outcome.df, OneVisibleColumns[i])

\* the summary counts are those of the BronMatch column
SummaryCountsBronMatch ==
    /\ summary.Matches = CountCells(outcome.df, BronMatchName, ja)
    /\ summary.Mismatches = CountCells(outcome.df, BronMatchName, nee)
    /\ summary.Matches + summary.Mismatches = NRows(outcome.df)

\* C24 as stated: BronMatch is in the result of the comparison and the
\* summary counts are taken from it; the table written to the data output
\* never has the column, and every other column is written unchanged and in
\* the same order.
C24_WrittenWithoutBronMatch ==
    pc = "one_written" =>
        /\ HasCol(outcome.df, BronMatchName)
        /\ SummaryCountsBronMatch
        /\ ~HasCol(written, BronMatchName)
        /\ WrittenIsResultWithoutBronMatch

\* C24 amended: the same for a result with at least one row; a result
\* without rows is written as the one-cell table Info.  In neither case has
\* the written table a BronMatch column.
C24_WrittenWithoutBronMatchOrInfo ==
    pc = "one_written" =>
        /\ HasCol(outcome.df, BronMatchName)
        /\ SummaryCountsBronMatch
        /\ ~HasCol(written, BronMatchName)
        /\ NRows(outcome.df) > 0 => WrittenIsResultWithoutBronMatch
        /\ NRows(outcome.df) = 0 =>
               /\ written.cols = <<InfoName>>
               /\ NRows(written) = 1

\* a result of two rows with two comparison columns has been written
C24_Witness ==
    /\ pc = "one_written"
    /\ NRows(outcome.df) = 2
    /\ Len(OneColumns) = 2
    /\ Len(written.cols) = Len(outcome.df.cols) - 1
    /\ summary.Mismatches = 2

\* the lines of the log about rows
RowLines == {i \in 1..Len(log) : log[i].kind # "sheet"}

\* row r of the result has a line of the kind that gives the name
Named(r, kind, name) ==
    \E i \in RowLines :
        /\ log[i].kind = kind
        /\ log[i].key = Column(outcome.df, KeyName)[r]
        /\ \E n \in 1..Len(log[i].names) : log[i].names[n] = name

\* C25: after a sheet is processed the log holds one line with its counts
\* and, for every row whose BronMatch is "nee", a line for its key that
\* names each source whose Aanwezig is "nee" and each column whose Match is
\* "nee": no such row is left without a line, and no line is about a row
\* whose BronMatch is "ja".
C25_EveryMismatchLogged ==
    pc = "one_logged" =>
        /\ Len(log) >= 1
        /\ log[1] = [kind |-> "sheet", sheet |-> SheetName,
                     matches |-> summary.Matches, mismatches |-> summary.Mismatches]
        /\ Cardinality({i \in 1..Len(log) : log[i].kind = "sheet"}) = 1
        /\ \A r \in 1..NRows(outcome.df) :
               Column(outcome.df, BronMatchName)[r] = nee =>
                   /\ \E i \in RowLines : log[i].key = Column(outcome.df, KeyName)[r]
                   /\ Column(outcome.df, AanwezigPrefix \o SourceLabels[1])[r] = nee =>
                          Named(r, "ontbreekt", SourceLabels[1])
                   /\ \A c \in 1..Len(OneColumns) :
                          Column(outcome.df, MatchPrefix \o OneColumns[c])[r] = nee =>
                              Named(r, "mismatch", OneColumns[c])
        /\ \A i \in RowLines :
               \E r \in 1..NRows(outcome.df) :
                   /\ Column(outcome.df, KeyName)[r] = log[i].key
                   /\ Column(outcome.df, BronMatchName)[r] = nee

-----------------------------------------------------------------------------
(* Properties of the permuted run *)

\* the verdicts of row r of a result: its key, Match_Key, the Match of every
\* comparison column, BronMatch
Verdicts(df, r) ==
    <<Cell(df, r, KeyName), Cell(df, r, MatchKeyName)>>
        \o [c \in 1..Len(ComparisonColumns) |-> Cell(df, r, MatchName(ComparisonColumns[c]))]
        \o <<Cell(df, r, BronMatchName)>>

\* the rows of a result with the verdicts v
RowsWith(df, v) == {r \in 1..NRows(df) : Verdicts(df, r) = v}

\* C27: the verdicts of a key do not depend on the order of the sources:
\* compared in another order the sources give the same keys with the same
\* Match_Key, Match_<column> and BronMatch, as often, and the same matches
\* and mismatches; a sheet that fails in one order fails in every order.
C27_VerdictsOrderIndependent ==
    pc = "perm_done" =>
        /\ outcome.raised = permuted.outcome.raised
        /\ ~outcome.raised =>
               /\ outcome.matches = permuted.outcome.matches
               /\ outcome.mismatches = permuted.outcome.mismatches
               /\ NRows(outcome.df) = NRows(permuted.outcome.df)
               /\ \A r \in 1..NRows(outcome.df) :
                      Cardinality(RowsWith(outcome.df, Verdicts(outcome.df, r)))
                          = Cardinality(RowsWith(permuted.outcome.df, Verdicts(outcome.df, r)))

\* three sources of one row each compared in the order 3, 1, 2: a key in all
\* of them whose val differs in one source
C27_Witness ==
    /\ pc = "perm_done"
    /\ Len(source_to_df) = 3
    /\ permuted.order = <<3, 1, 2>>
    /\ ~outcome.raised
    /\ NRows(outcome.df) = 1
    /\ Cell(outcome.df, 1, MatchKeyName) = ja
    /\ Cell(outcome.df, 1, MatchName(ValName)) = nee
    /\ Cell(source_to_df[1].df, 1, ValName) = <<"x">>
    /\ Cell(source_to_df[2].df, 1, ValName) = <<"x">>
    /\ Cell(source_to_df[3].df, 1, ValName) = <<"y">>

-----------------------------------------------------------------------------
(* Properties of the discovery run *)

\* the origins: the files of the two directories and the subdirectories
\* that combine to a workbook
Origins ==
    {[dir |-> "Input", name |-> e.name, combined |-> e.is_dir] :
         e \in {f \in input_dirs.primary : f.is_dir => f.combines}}
    \cup {[dir |-> "InputColumns", name |-> e.name, combined |-> e.is_dir] :
              e \in {f \in input_dirs.alternative : f.is_dir => f.combines}}

\* C30: discovery gives every origin a label of its own: the labels of the
\* source map are distinct, each is the path of an origin, and no origin is
\* left without a label because another origin has taken it.
C30_EveryOriginHasItsLabel ==
    rpc = "discovered" =>
        /\ \A i, j \in 1..Len(source_map) :
               source_map[i].label = source_map[j].label => i = j
        /\ \A i \in 1..Len(source_map) : source_map[i].path \in Origins
        /\ \A o \in Origins : \E i \in 1..Len(source_map) : source_map[i].path = o

=============================================================================
